---- MODULE Spec2Model ----
(***************************************************************************)
(* Model of basalt's review providers: the GitLab REST client              *)
(* (src/src/providers/gitlab_api.rs) and the Provider implementation on    *)
(* top of it (src/src/providers/gitlab.rs), the stubbed GitHub provider    *)
(* (src/src/providers/github.rs) and the in-memory provider                *)
(* (src/src/providers/mock.rs).  Each provider has its own specification:  *)
(* Spec (GitLabProvider), SpecGitHub (GitHubProvider), SpecMock            *)
(* (MockProvider); the variables of the other providers stay as they are.  *)
(* Five more specifications share the module: SpecMockThreads (one         *)
(* MockProvider called from several threads), SpecMockSwitches (the        *)
(* MockProvider with its test switches), SpecRemote (the string functions  *)
(* of ProviderType, src/src/providers/mod.rs), SpecBt (bt init,            *)
(* src/src/cli/init.rs, with src/src/core/metadata.rs) and SpecVerify      *)
(* (the two token checks of the GitLab client, each on its own).           *)
(*                                                                         *)
(* Every handler is one atomic action.  What a handler reads from the      *)
(* outside world (the glab config file, the credential helper, the         *)
(* terminal, the GitLab server) is chosen inside the action from the sets  *)
(* of answers that source can give.  The calls a handler makes are         *)
(* recorded, in order, in last.calls.                                      *)
(***************************************************************************)
EXTENDS Integers, Sequences, FiniteSets, TLC

VARIABLES
    token,          \* GitLabClient.token : Option<String>
    project_path,   \* GitLabProvider.project_path : Option<String>
    authenticated,  \* GitLabProvider.authenticated : bool
    glabCfg,        \* hosts.<host>.token of ~/.config/glab-cli/config.yml
    glabAvail,      \* whether `glab --version` can be run
    verified,       \* history: tokens that passed both checks in authenticate()
    last,           \* the last Provider call: entry state, result, calls made
    gh,             \* what the gh CLI does on this machine
    gh_last,        \* the last call on the GitHubProvider and its result
    mock_state,     \* MockProvider.state : MockProviderState
    provider_type,  \* MockProvider.provider_type
    created,        \* history: the reviews create_review returned since new / clear_reviews
    updated,        \* history: the ids update_review has succeeded on since then
    mock_last,      \* the last call on the MockProvider and its result
    lock,           \* concurrent callers: who holds the Mutex of MockProvider.state
    pc,             \* concurrent callers: each caller's position in create_review
    local,          \* concurrent callers: each caller's params, review_id and result
    subject,        \* the &str handed to ProviderType::from_str / from_remote_url / extract_*
    remote_last,    \* the last call on subject and its result
    repo,           \* the working directory: git repository, remotes, .git/basalt
    init_log,       \* history: the results of the run_init calls, in order
    init_last,      \* the last run_init / load_metadata call and its result
    candidate,      \* the token a GitLabClient holds while one check runs
    reply,          \* what the server answers to that check
    verify_last     \* the check that ran, and its result

gitlabVars == <<token, project_path, authenticated, glabCfg, glabAvail, verified, last>>

githubVars == <<gh, gh_last>>

mockVars == <<mock_state, provider_type, created, updated, mock_last>>

threadVars == <<lock, pc, local>>

remoteVars == <<subject, remote_last>>

repoVars == <<repo, init_log, init_last>>

verifyVars == <<candidate, reply, verify_last>>

restVars == <<threadVars, remoteVars, repoVars, verifyVars>>

vars == <<gitlabVars, githubVars, mockVars, restVars>>

----------------------------------------------------------------------------
(* Values *)

None == "None"

\* The credentials of the model, named after how the server treats them.
Tokens == {"good", "noscope", "inactive", "revoked"}

OptToken == Tokens \cup {None}

ProjectPaths == {"owner/repo"}

RequiredScope == "api"

\* Largest iid the server gives a new merge request.
MaxIid == 2

\* Review ids handed to get_review / update_review, as their characters.
ReviewIds == {<<"1">>, <<"4", "2">>, <<"!", "1">>, <<"+", "2">>, <<"x">>, <<>>}

BoolStr(b) == IF b THEN "true" ELSE "false"

PatUrl == "https://gitlab.com/-/profile/personal_access_tokens"

\* One recorded call: the function or endpoint, the token it carried or
\* produced, and how it ended.
Ev(fn, tok, res) == [fn |-> fn, tok |-> tok, res |-> res]

----------------------------------------------------------------------------
(* GitLabError *)

GErr(kind) == [kind |-> kind, status |-> 0, message |-> "", iid |-> 0, required |-> ""]

GOk == GErr("Ok")

MissingScope(required) == [GErr("MissingScope") EXCEPT !.required = required]

MergeRequestNotFound(iid) == [GErr("MergeRequestNotFound") EXCEPT !.iid = iid]

ApiError(status, message) ==
    [GErr("ApiError") EXCEPT !.status = status, !.message = message]

\* The #[error(...)] text of a GitLabError, as its fragments.
Display(e) ==
    CASE e.kind = "RequestFailed" -> <<"HTTP request failed: ", "reqwest">>
      [] e.kind = "AuthenticationFailed" ->
            <<"Authentication failed: Invalid or expired token">>
      [] e.kind = "MissingScope" ->
            <<"Token is missing required scope: ", e.required,
              ". Please create a token with '", e.required, "' scope at ", PatUrl>>
      [] e.kind = "NoTokenAvailable" ->
            <<"No authentication token available. Please authenticate.">>
      [] e.kind = "MergeRequestNotFound" ->
            <<"Merge request not found: !", ToString(e.iid)>>
      [] e.kind = "ApiError" ->
            <<"API error (", ToString(e.status), "): ", e.message>>
      [] OTHER -> <<e.kind>>

----------------------------------------------------------------------------
(* The GitLab server, as the client sees it.  Status 0 stands for a request *)
(* that got no response (send() failed).                                    *)

Resp(status, scopes, active, body) ==
    [status |-> status, scopes |-> scopes, active |-> active, body |-> body]

\* GET /personal_access_tokens/self
IntrospectResponses(tok) ==
    CASE tok = "good"     -> {Resp(200, {"api", "read_user"}, TRUE, "pat"),
                              Resp(500, {}, FALSE, "oops")}
      [] tok = "noscope"  -> {Resp(200, {"read_user"}, TRUE, "pat"),
                              Resp(200, {"read_user"}, FALSE, "pat")}
      [] tok = "inactive" -> {Resp(200, {"api"}, FALSE, "pat")}
      [] OTHER            -> {Resp(401, {}, FALSE, "unauthorized")}

\* GET /user
IdentityResponses(tok) ==
    CASE tok = "good"     -> {Resp(200, {}, TRUE, "user"), Resp(0, {}, FALSE, "")}
      [] tok = "noscope"  -> {Resp(200, {}, TRUE, "user")}
      [] OTHER            -> {Resp(401, {}, FALSE, "unauthorized")}

\* POST / PUT / GET on the merge request endpoints
MergeRequestResponses(tok) ==
    CASE tok = "good"     -> {Resp(200, {}, TRUE, "mr"), Resp(404, {}, TRUE, "not found"),
                              Resp(500, {}, TRUE, "oops"), Resp(0, {}, FALSE, "")}
      [] tok = "noscope"  -> {Resp(403, {}, TRUE, "forbidden")}
      [] OTHER            -> {Resp(401, {}, FALSE, "unauthorized")}

IsSuccess(status) == status \in 200..299

----------------------------------------------------------------------------
(* Remote verification.  Each operator gives the set of outcomes            *)
(* [res, calls] that the call can have for the held token.                  *)

\* Mutant of ScopeCheck: the active flag is not looked at.
ScopeCheck_ignore_active(r) ==
    IF r.status = 0 THEN GErr("RequestFailed")
    ELSE IF r.status = 401 THEN GErr("AuthenticationFailed")
    ELSE IF ~IsSuccess(r.status) THEN GErr("RequestFailed")
    ELSE IF RequiredScope \notin r.scopes THEN MissingScope(RequiredScope)
    ELSE GOk

\* verify_token_scopes, after the response arrived
ScopeCheck(r) ==
    IF r.status = 0 THEN GErr("RequestFailed")
    ELSE IF r.status = 401 THEN GErr("AuthenticationFailed")
    ELSE IF ~IsSuccess(r.status) THEN GErr("RequestFailed")
    ELSE IF RequiredScope \notin r.scopes THEN MissingScope(RequiredScope)
    ELSE IF ~r.active THEN GErr("AuthenticationFailed")
    ELSE GOk

verify_token_scopes(tok) ==
    IF tok = None THEN {[res |-> GErr("NoTokenAvailable"), calls |-> <<>>]}
    ELSE {[res |-> ScopeCheck(r),
           calls |-> <<Ev("verify_token_scopes", tok, ScopeCheck(r).kind)>>]
          : r \in IntrospectResponses(tok)}

\* verify_auth, after the response arrived
IdentityCheck(r) ==
    IF r.status = 0 THEN GErr("RequestFailed")
    ELSE IF r.status = 401 THEN GErr("AuthenticationFailed")
    ELSE IF ~IsSuccess(r.status) THEN GErr("RequestFailed")
    ELSE GOk

verify_auth(tok) ==
    IF tok = None THEN {[res |-> GErr("NoTokenAvailable"), calls |-> <<>>]}
    ELSE {[res |-> IdentityCheck(r),
           calls |-> <<Ev("verify_auth", tok, IdentityCheck(r).kind)>>]
          : r \in IdentityResponses(tok)}

\* Mutant of VerifyBoth: the identity endpoint is asked first.
VerifyBoth_identity_first(tok) ==
    UNION { IF a.res.kind = "Ok"
            THEN {[res |-> s.res, calls |-> a.calls \o s.calls]
                  : s \in verify_token_scopes(tok)}
            ELSE {a}
          : a \in verify_auth(tok) }

\* self.verify_token_scopes().and_then(|_| self.verify_auth()), and likewise
\* self.verify_token_scopes()?; self.verify_auth()?
VerifyBoth(tok) ==
    UNION { IF s.res.kind = "Ok"
            THEN {[res |-> a.res, calls |-> s.calls \o a.calls] : a \in verify_auth(tok)}
            ELSE {s}
          : s \in verify_token_scopes(tok) }

----------------------------------------------------------------------------
(* The credential sources.  Each gives the set of outcomes [tok, cfg, calls]: *)
(* the token found (or None), the glab config afterwards, the calls made.     *)

Probe(tok, cfg, calls) == [tok |-> tok, cfg |-> cfg, calls |-> calls]

\* A line typed at the terminal: the text and whether blanks surround it.
Lines == [text : Tokens \cup {""}, padded : BOOLEAN]

Trim(line) == line.text

try_glab_token(cfg, ctx) ==
    {Probe(cfg, cfg, <<Ev(ctx \o "try_glab_token", cfg, "read")>>)}

\* the two `git credential fill` processes that try_git_credential starts
Children == {"first", "second"}

\* what happened to one of them
Child(c, what) == c \o " child: " \o what

try_git_credential(cfg) ==
    \* the first `git credential fill` is spawned and is written the request
    {Probe(None, cfg, <<Ev("git credential fill", None, Child("first", "spawn failed"))>>)}
    \cup
    \* the output is taken from a second `git credential fill`, started with
    \* Command::output(), which gives the child no standard input
    {Probe(out, cfg, <<Ev("git credential fill", None, Child("first", "request written")),
                       Ev("git credential fill", out, Child("second", "output read"))>>)
     : out \in OptToken}

prompt_for_token(cfg, ctx) ==
    {Probe(None, cfg, <<Ev(ctx \o "prompt_for_token", None, "read failed")>>)}
    \cup
    {Probe(IF t = "" THEN None ELSE t, cfg,
           <<Ev(ctx \o "prompt_for_token", IF t = "" THEN None ELSE t, "read")>>)
     : t \in {Trim(l) : l \in Lines}}

InCli == "try_cli_auth>"

try_cli_auth(cfg, avail) ==
    IF ~avail
    THEN {Probe(None, cfg, <<Ev("try_cli_auth", None, "glab missing")>>)}
    ELSE
      LET menu(choice) == <<Ev("try_cli_auth", None, choice)>>
          Then(head, S) == {Probe(o.tok, o.cfg, head \o o.calls) : o \in S}
      IN  {Probe(None, cfg, menu("read failed"))}
          \cup
          \* "1": glab auth login, then the config file is read again
          {Probe(None, cfg, menu("1") \o <<Ev(InCli \o "glab auth login", None, "failed")>>)}
          \cup
          UNION { Then(menu("1") \o <<Ev(InCli \o "glab auth login", None, "ok")>>,
                       try_glab_token(after, InCli))
                  : after \in OptToken }
          \cup
          \* "2", and any other answer: manual entry
          UNION { Then(menu(choice), prompt_for_token(cfg, InCli))
                  : choice \in {"2", "other"} }

\* a.or_else(|| b): b runs only when a gave no token
\* (F maps the glab config at that point to the outcomes of b)
OrElse(S, F) ==
    UNION { IF o.tok # None THEN {o}
            ELSE {Probe(n.tok, n.cfg, o.calls \o n.calls) : n \in F[o.cfg]}
          : o \in S }

\* Mutant of ProbeChain: the credential helper is asked before the glab config.
ProbeChain_helper_first(cfg, avail) ==
    LET glab   == [c \in OptToken |-> try_glab_token(c, "")]
        cli    == [c \in OptToken |-> try_cli_auth(c, avail)]
        manual == [c \in OptToken |-> prompt_for_token(c, "")]
    IN  OrElse(OrElse(OrElse(try_git_credential(cfg), glab), cli), manual)

ProbeChain(cfg, avail) ==
    LET glab   == try_glab_token(cfg, "")
        helper == [c \in OptToken |-> try_git_credential(c)]
        cli    == [c \in OptToken |-> try_cli_auth(c, avail)]
        manual == [c \in OptToken |-> prompt_for_token(c, "")]
    IN  OrElse(OrElse(OrElse(glab, helper), cli), manual)

----------------------------------------------------------------------------
(* GitLabClient::authenticate: the set of outcomes [token, cfg, res, calls]. *)

Auth(tok, cfg, res, calls) == [token |-> tok, cfg |-> cfg, res |-> res, calls |-> calls]

\* Mutant of CachedStep: a held token that fails verification ends the call.
CachedStep_fail_fast(tok) ==
    IF tok # None
    THEN {[done |-> TRUE, token |-> IF v.res.kind = "Ok" THEN tok ELSE None,
           res |-> v.res, calls |-> v.calls] : v \in VerifyBoth(tok)}
    ELSE {[done |-> FALSE, token |-> None, res |-> GOk, calls |-> <<>>]}

\* "If we already have a token, try to verify it first": [done, token, res, calls]
CachedStep(tok) ==
    IF tok # None
    THEN {[done  |-> v.res.kind = "Ok",
           token |-> IF v.res.kind = "Ok" THEN tok ELSE None,
           res   |-> v.res,
           calls |-> v.calls] : v \in VerifyBoth(tok)}
    ELSE {[done |-> FALSE, token |-> None, res |-> GOk, calls |-> <<>>]}

\* Mutant of FreshStep: a probed token that fails verification is verified again.
FreshStep_retry_verify(cfg, avail) ==
    UNION { IF p.tok = None
            THEN {Auth(None, p.cfg, GErr("NoTokenAvailable"), p.calls)}
            ELSE UNION { IF v.res.kind = "Ok"
                         THEN {Auth(p.tok, p.cfg, v.res, p.calls \o v.calls)}
                         ELSE {Auth(p.tok, p.cfg, w.res, p.calls \o v.calls \o w.calls)
                               : w \in VerifyBoth(p.tok)}
                       : v \in VerifyBoth(p.tok) }
          : p \in ProbeChain(cfg, avail) }

\* Mutant of FreshStep: a probed token that is rejected starts the chain again.
FreshStep_reprobe(cfg, avail) ==
    LET once(c, head) ==
            UNION { IF p.tok = None
                    THEN {Auth(None, p.cfg, GErr("NoTokenAvailable"), head \o p.calls)}
                    ELSE {Auth(p.tok, p.cfg, v.res, head \o p.calls \o v.calls)
                          : v \in VerifyBoth(p.tok)}
                  : p \in ProbeChain(c, avail) }
    IN  UNION { IF f.res.kind = "AuthenticationFailed"
                THEN once(f.cfg, f.calls) ELSE {f}
              : f \in once(cfg, <<>>) }

\* "Try to get token from various sources", then "Verify the token works"
FreshStep(cfg, avail) ==
    UNION { IF p.tok = None
            THEN {Auth(None, p.cfg, GErr("NoTokenAvailable"), p.calls)}
            ELSE {Auth(p.tok, p.cfg, v.res, p.calls \o v.calls) : v \in VerifyBoth(p.tok)}
          : p \in ProbeChain(cfg, avail) }

\* Mutant of GitLabClient_authenticate: the sources are probed even when the
\* held token has passed both checks.
GitLabClient_authenticate_always_probe(tok, cfg, avail) ==
    UNION { {Auth(f.token, f.cfg, f.res, c.calls \o f.calls)
             : f \in FreshStep(cfg, avail)}
          : c \in CachedStep(tok) }

GitLabClient_authenticate(tok, cfg, avail) ==
    UNION { IF c.done
            THEN {Auth(c.token, cfg, c.res, c.calls)}
            ELSE {Auth(f.token, f.cfg, f.res, c.calls \o f.calls)
                  : f \in FreshStep(cfg, avail)}
          : c \in CachedStep(tok) }

----------------------------------------------------------------------------
(* u64 <-> String *)

Digit == {"0", "1", "2", "3", "4", "5", "6", "7", "8", "9"}

DigitVal(c) ==
    CASE c = "0" -> 0 [] c = "1" -> 1 [] c = "2" -> 2 [] c = "3" -> 3 [] c = "4" -> 4
      [] c = "5" -> 5 [] c = "6" -> 6 [] c = "7" -> 7 [] c = "8" -> 8 [] c = "9" -> 9

DigitChar(d) == <<"0", "1", "2", "3", "4", "5", "6", "7", "8", "9">>[d + 1]

RECURSIVE DigitsValue(_)
DigitsValue(s) ==
    IF s = <<>> THEN 0
    ELSE DigitsValue(SubSeq(s, 1, Len(s) - 1)) * 10 + DigitVal(s[Len(s)])

\* str::parse::<u64>() on ids far below u64::MAX: an optional '+', then
\* one or more decimal digits
ParseU64_default_zero(s) ==
    LET d == IF s # <<>> /\ s[1] = "+" THEN Tail(s) ELSE s
    IN  IF d # <<>> /\ \A i \in 1..Len(d) : d[i] \in Digit
        THEN [ok |-> TRUE, value |-> DigitsValue(d)]
        ELSE [ok |-> TRUE, value |-> 0]

ParseU64(s) ==
    LET d == IF s # <<>> /\ s[1] = "+" THEN Tail(s) ELSE s
    IN  IF d # <<>> /\ \A i \in 1..Len(d) : d[i] \in Digit
        THEN [ok |-> TRUE, value |-> DigitsValue(d)]
        ELSE [ok |-> FALSE, value |-> 0]

\* u64::to_string()
RECURSIVE U64ToString(_)
U64ToString(n) ==
    IF n < 10 THEN <<DigitChar(n)>>
    ELSE U64ToString(n \div 10) \o <<DigitChar(n % 10)>>

----------------------------------------------------------------------------
(* GitLabClient: the merge request endpoints.  Each operator gives the set  *)
(* of outcomes [res, mr, request] of the call.                              *)

NoRequest == [method |-> "none", iid |-> 0, body |-> {}]

NoResponse == [status |-> 0, body |-> ""]

Answer(r) == [status |-> r.status, body |-> r.body]

Request(method, iid, body) == [method |-> method, iid |-> iid, body |-> body]

NoMR ==
    [iid |-> 0, title |-> "", description |-> None, state |-> "", web_url |-> "",
     source_branch |-> "", target_branch |-> "", draft |-> FALSE]

\* The merge request the server describes in a 2xx body.
ServerMR(iid, title, description, source_branch, target_branch, draft) ==
    [iid |-> iid, title |-> title, description |-> description, state |-> "opened",
     web_url |-> "https://gitlab.com/owner/repo/-/merge_requests/",
     source_branch |-> source_branch, target_branch |-> target_branch, draft |-> draft]

Call(res, mr, request, response) ==
    [res |-> res, mr |-> mr, request |-> request, response |-> response]

\* the fields serde writes: a None field is skipped
JsonBody(fields) == {f \in fields : f[2] # None}

create_merge_request(tok, params) ==
    IF tok = None THEN {Call(GErr("NoTokenAvailable"), NoMR, NoRequest, NoResponse)}
    ELSE
      LET req == Request("POST", 0,
                    JsonBody({<<"source_branch", params.source_branch>>,
                              <<"target_branch", params.target_branch>>,
                              <<"title", params.title>>,
                              <<"description", params.description>>,
                              <<"draft", BoolStr(params.draft)>>}))
      IN UNION {
           IF r.status = 0 THEN {Call(GErr("RequestFailed"), NoMR, req, Answer(r))}
           ELSE IF ~IsSuccess(r.status) THEN {Call(ApiError(r.status, r.body), NoMR, req, Answer(r))}
           ELSE {Call(GOk, ServerMR(iid, params.title, params.description,
                                    params.source_branch, params.target_branch,
                                    params.draft), req, Answer(r))
                 : iid \in 1..MaxIid}
         : r \in MergeRequestResponses(tok) }

update_merge_request(tok, mr_iid, params) ==
    IF tok = None THEN {Call(GErr("NoTokenAvailable"), NoMR, NoRequest, NoResponse)}
    ELSE
      LET req == Request("PUT", mr_iid,
                    JsonBody({<<"title", params.title>>,
                              <<"description", params.description>>,
                              <<"target_branch", params.target_branch>>,
                              <<"draft", params.draft>>}))
          given(name, old) ==
              IF \E f \in req.body : f[1] = name
              THEN (CHOOSE f \in req.body : f[1] = name)[2] ELSE old
      IN {
           IF r.status = 0 THEN Call(GErr("RequestFailed"), NoMR, req, Answer(r))
           ELSE IF ~IsSuccess(r.status) THEN Call(ApiError(r.status, r.body), NoMR, req, Answer(r))
           ELSE Call(GOk, ServerMR(mr_iid, given("title", "old title"),
                                   given("description", None), "feature",
                                   given("target_branch", "main"),
                                   given("draft", "false") = "true"), req, Answer(r))
         : r \in MergeRequestResponses(tok) }

\* Mutant of get_merge_request: 404 is not told apart from other failures.
get_merge_request_no_404(tok, mr_iid) ==
    IF tok = None THEN {Call(GErr("NoTokenAvailable"), NoMR, NoRequest, NoResponse)}
    ELSE
      LET req == Request("GET", mr_iid, {})
      IN {
           IF r.status = 0 THEN Call(GErr("RequestFailed"), NoMR, req, Answer(r))
           ELSE IF ~IsSuccess(r.status) THEN Call(ApiError(r.status, r.body), NoMR, req, Answer(r))
           ELSE Call(GOk, ServerMR(mr_iid, "old title", None, "feature", "main", FALSE), req,
                     Answer(r))
         : r \in MergeRequestResponses(tok) }

get_merge_request(tok, mr_iid) ==
    IF tok = None THEN {Call(GErr("NoTokenAvailable"), NoMR, NoRequest, NoResponse)}
    ELSE
      LET req == Request("GET", mr_iid, {})
      IN {
           IF r.status = 0 THEN Call(GErr("RequestFailed"), NoMR, req, Answer(r))
           ELSE IF r.status = 404 THEN Call(MergeRequestNotFound(mr_iid), NoMR, req, Answer(r))
           ELSE IF ~IsSuccess(r.status) THEN Call(ApiError(r.status, r.body), NoMR, req, Answer(r))
           ELSE Call(GOk, ServerMR(mr_iid, "old title", None, "feature", "main", FALSE), req,
                     Answer(r))
         : r \in MergeRequestResponses(tok) }

----------------------------------------------------------------------------
(* crate::error::Error, as returned through the Provider trait *)

NoReview ==
    [id |-> <<>>, title |-> "", description |-> None, state |-> "", url |-> "",
     source_branch |-> "", target_branch |-> "", draft |-> FALSE]

PRes(kind, text, review) == [kind |-> kind, text |-> text, review |-> review]

POk == PRes("Ok", <<>>, NoReview)

ProviderAuthRequired(auth_command) == PRes("ProviderAuthRequired", auth_command, NoReview)

provider_op(message) == PRes("ProviderOperationFailed", message, NoReview)

\* the arguments of a call that takes none
NoParams ==
    [review_id |-> <<>>, title |-> None, description |-> None, target_branch |-> None,
     draft |-> None]

----------------------------------------------------------------------------
(* GitHubProvider: the gh CLI it runs, and what its operations return.      *)

\* the check mark character U+2713
CheckMark == "U+2713"

\* the standard output of `gh auth status`, as the fragments it holds
GhStdout == {<<"github.com", CheckMark, "Logged in to github.com">>, <<CheckMark>>,
             <<"Logged in">>, <<"You are not logged in">>, <<>>}

\* installed: Command::output() can start gh; auth_exit, auth_stdout: how
\* `gh auth status` ends
GhCli == [installed : BOOLEAN, auth_exit : {0, 1}, auth_stdout : GhStdout]

\* str::contains on the fragments
Contains(stdout, pat) ==
    \E i \in 1..Len(stdout) : stdout[i] = pat \/ stdout[i] = pat \o " to github.com"

ProviderCliNotFound(cli_name) == PRes("ProviderCliNotFound", <<cli_name>>, NoReview)

CommandFailed(command, exit_code) ==
    PRes("CommandFailed", <<command, ToString(exit_code)>>, NoReview)

\* GitHubProvider::run_gh(["auth", "status"]): the error, or Ok and the output
run_gh(cli) ==
    IF ~cli.installed THEN [res |-> ProviderCliNotFound("self.cli_name()"), stdout |-> <<>>]
    ELSE IF cli.auth_exit # 0
         THEN [res |-> CommandFailed("gh auth status", cli.auth_exit), stdout |-> <<>>]
    ELSE [res |-> POk, stdout |-> cli.auth_stdout]

GitHub_check_cli_available_result(cli) ==
    IF ~cli.installed THEN ProviderCliNotFound("self.cli_name()") ELSE POk

GitHub_check_authentication_result(cli) ==
    LET output == run_gh(cli)
    IN  IF output.res.kind # "Ok" THEN output.res
        ELSE IF ~Contains(output.stdout, "Logged in") /\ ~Contains(output.stdout, CheckMark)
             THEN ProviderAuthRequired(<<"self.auth_command()">>)
        ELSE POk

NotYetImplemented == "not yet implemented"

GitHub_create_review_result(params) ==
    provider_op(<<"GitHub PR creation", NotYetImplemented>>)

GitHub_update_review_result(params) ==
    provider_op(<<"GitHub PR update", NotYetImplemented>>)

\* Mutant of GitHub_get_review_result: the stub answers with an empty review.
GitHub_get_review_result_empty(review_id) ==
    PRes("Ok", <<>>, [NoReview EXCEPT !.id = review_id])

GitHub_get_review_result(review_id) ==
    provider_op(<<"GitHub PR retrieval", NotYetImplemented>>)

GitHub_find_review_for_branch_result(branch) ==
    provider_op(<<"GitHub PR lookup by branch", NotYetImplemented>>)

\* the arguments of one call, whichever operation it is
Args(review_id, params, branch) ==
    [review_id |-> review_id, title |-> params.title, description |-> params.description,
     target_branch |-> params.target_branch, draft |-> params.draft, branch |-> branch]

NoArgs == Args(<<>>, NoParams, None)

GhLast(op, args, res) == [op |-> op, args |-> args, res |-> res]

GitHubProvider_new == gh_last = GhLast("new", NoArgs, POk)

----------------------------------------------------------------------------
(* MockProvider: the in-memory provider.  A HashMap is a function whose     *)
(* domain is the set of its keys.                                           *)

\* Most reviews created between two clear_reviews.
MaxReviews == 2

Branches == {"feature", "hotfix"}

ProviderTypes == {"GitLab", "GitHub"}

EmptyMap == [k \in {} |-> None]

\* HashMap::insert
Insert(map, key, value) == (key :> value) @@ map

MockProviderState_new ==
    [reviews |-> EmptyMap, branch_to_review |-> EmptyMap, next_id |-> 1,
     cli_available |-> TRUE, authenticated |-> TRUE, should_fail_create |-> FALSE,
     should_fail_update |-> FALSE, should_fail_get |-> FALSE]

\* format!("!{}", id) for GitLab, format!("{}", id) for GitHub
FormatId(ptype, id) ==
    IF ptype = "GitLab" THEN <<"!">> \o U64ToString(id) ELSE U64ToString(id)

\* Mutant of next_review_id: the counter is not advanced.
next_review_id_no_increment(st, ptype) ==
    [id |-> FormatId(ptype, st.next_id), state |-> st]

\* MockProvider::next_review_id: the id, and the state it leaves
next_review_id(st, ptype) ==
    [id |-> FormatId(ptype, st.next_id), state |-> [st EXCEPT !.next_id = @ + 1]]

\* str::trim_start_matches('!')
RECURSIVE TrimStartBang(_)
TrimStartBang(s) == IF s # <<>> /\ s[1] = "!" THEN TrimStartBang(Tail(s)) ELSE s

\* the characters of a string, written as one string
RECURSIVE Join(_)
Join(s) == IF s = <<>> THEN "" ELSE s[1] \o Join(Tail(s))

MockUrl(ptype, review_id) ==
    IF ptype = "GitLab"
    THEN "https://gitlab.com/mock/repo/-/merge_requests/" \o Join(TrimStartBang(review_id))
    ELSE "https://github.com/mock/repo/pull/" \o Join(review_id)

\* the Review create_review builds
NewReview(review_id, url, params) ==
    [id |-> review_id, title |-> params.title, description |-> params.description,
     state |-> "Open", url |-> url, source_branch |-> params.source_branch,
     target_branch |-> params.target_branch, draft |-> params.draft]

\* Mutant of IndexBranch: a branch that has a review keeps it.
IndexBranch_keep_first(branch_to_review, source_branch, review_id) ==
    IF source_branch \in DOMAIN branch_to_review THEN branch_to_review
    ELSE Insert(branch_to_review, source_branch, review_id)

\* state.branch_to_review.insert(params.source_branch, review_id)
IndexBranch(branch_to_review, source_branch, review_id) ==
    Insert(branch_to_review, source_branch, review_id)

\* Mutant of ApplyUpdate: a new title is written into the description too.
ApplyUpdate_title_into_description(review, params) ==
    [review EXCEPT
        !.title = IF params.title # None THEN params.title ELSE @,
        !.description = IF params.title # None THEN params.title ELSE @,
        !.target_branch = IF params.target_branch # None THEN params.target_branch ELSE @,
        !.draft = IF params.draft # None THEN params.draft = "true" ELSE @]

\* the four `if let Some(..)` assignments of update_review
ApplyUpdate(review, params) ==
    [review EXCEPT
        !.title = IF params.title # None THEN params.title ELSE @,
        !.description = IF params.description # None THEN params.description ELSE @,
        !.target_branch = IF params.target_branch # None THEN params.target_branch ELSE @,
        !.draft = IF params.draft # None THEN params.draft = "true" ELSE @]

ReviewNotFound(branch) == PRes("ReviewNotFound", branch, NoReview)

\* Mutant of Mock_get_review_result: the review comes back closed.
Mock_get_review_result_closed(st, review_id) ==
    IF st.should_fail_get THEN provider_op(<<"Simulated get failure">>)
    ELSE IF review_id \in DOMAIN st.reviews
         THEN PRes("Ok", <<>>, [st.reviews[review_id] EXCEPT !.state = "Closed"])
    ELSE ReviewNotFound(review_id)

\* MockProvider::get_review, which leaves the state as it is
Mock_get_review_result(st, review_id) ==
    IF st.should_fail_get THEN provider_op(<<"Simulated get failure">>)
    ELSE IF review_id \in DOMAIN st.reviews
         THEN PRes("Ok", <<>>, st.reviews[review_id])
    ELSE ReviewNotFound(review_id)

\* the last call: its arguments, its result and, for a Result<Option<Review>>,
\* whether the Option is Some
MockLast(op, args, res, some) == [op |-> op, args |-> args, res |-> res, some |-> some]

MockProvider_new ==
    /\ mock_state = MockProviderState_new
    /\ created = <<>>
    /\ updated = {}
    /\ mock_last = MockLast("new", NoArgs, POk, FALSE)

----------------------------------------------------------------------------
(* Concurrent callers of one MockProvider.  Clones share state through the  *)
(* Arc; every method starts with self.state.lock(), and the guard lives to  *)
(* the end of the method body.                                              *)

\* the threads that share the provider
Threads == {"t1", "t2"}

\* Mutant of CanLock: the lock is handed out while another thread holds it.
CanLock_always(l) == TRUE

\* Mutex::lock returns only while no other guard is alive
CanLock(l) == l = None

NoCreateParams ==
    [source_branch |-> None, target_branch |-> None, title |-> None,
     description |-> None, draft |-> FALSE]

\* a caller's stack frame in create_review: params, `id` of next_review_id,
\* review_id, and what the call returned
NoLocal == [params |-> NoCreateParams, id |-> 0, review_id |-> <<>>, res |-> POk]

\* no thread is inside a method of the provider
NoCallers ==
    /\ lock = None
    /\ pc = [t \in Threads |-> "idle"]
    /\ local = [t \in Threads |-> NoLocal]

----------------------------------------------------------------------------
(* ProviderType: from_str, from_remote_url, extract_base_url and            *)
(* extract_project_path.  A &str is the sequence of its characters; the     *)
(* model has ASCII strings only.                                            *)

UpperCase == <<"A", "B", "C", "D", "E", "F", "G", "H", "I", "J", "K", "L", "M", "N", "O", "P", "Q", "R", "S", "T", "U", "V", "W", "X", "Y", "Z">>

LowerCase == <<"a", "b", "c", "d", "e", "f", "g", "h", "i", "j", "k", "l", "m", "n", "o", "p", "q", "r", "s", "t", "u", "v", "w", "x", "y", "z">>

\* Mutant of ToLowerChar: letters keep their case.
ToLowerChar_identity(c) == c

\* char::to_lowercase on an ASCII character
ToLowerChar(c) ==
    IF \E i \in 1..Len(UpperCase) : UpperCase[i] = c
    THEN LowerCase[CHOOSE i \in 1..Len(UpperCase) : UpperCase[i] = c]
    ELSE c

\* str::to_lowercase
to_lowercase(s) == [i \in 1..Len(s) |-> ToLowerChar(s[i])]

\* the result of a ProviderType function: Ok(value) or an error and the
\* string it carries
RRes(kind, value) == [kind |-> kind, value |-> value]

UnknownProvider(provider) == RRes("UnknownProvider", provider)

ProviderDetectionFailed(remote_url) == RRes("ProviderDetectionFailed", remote_url)

\* Error::config(message)
config(message) == RRes("Config", message)

s_gitlab == <<"g", "i", "t", "l", "a", "b">>

s_github == <<"g", "i", "t", "h", "u", "b">>

s_gitlab_com == <<"g", "i", "t", "l", "a", "b", ".", "c", "o", "m">>

s_github_com == <<"g", "i", "t", "h", "u", "b", ".", "c", "o", "m">>

\* ProviderType::from_str
from_str(s) ==
    LET lower == to_lowercase(s)
    IN  IF lower = s_gitlab THEN RRes("Ok", <<"GitLab">>)
        ELSE IF lower = s_github THEN RRes("Ok", <<"GitHub">>)
        ELSE UnknownProvider(s)

\* str::starts_with
starts_with(s, pat) == Len(s) >= Len(pat) /\ SubSeq(s, 1, Len(pat)) = pat

\* str::ends_with
ends_with(s, pat) ==
    Len(s) >= Len(pat) /\ SubSeq(s, Len(s) - Len(pat) + 1, Len(s)) = pat

\* str::find: the index of the first match counted from 1, or 0 for None
find(s, pat) ==
    LET hits == {i \in 1..(Len(s) - Len(pat) + 1) : SubSeq(s, i, i + Len(pat) - 1) = pat}
    IN  IF hits = {} THEN 0 ELSE CHOOSE i \in hits : \A j \in hits : i <= j

\* str::contains
contains(s, pat) == find(s, pat) # 0

\* &s[n..] with n counted from 0
from(s, n) == SubSeq(s, n + 1, Len(s))

\* &s[..n]
upto(s, n) == SubSeq(s, 1, n)

\* str::trim_end_matches: the pattern is removed from the end as long as it
\* is there
RECURSIVE trim_end_matches(_, _)
trim_end_matches(s, pat) ==
    IF pat # <<>> /\ ends_with(s, pat)
    THEN trim_end_matches(upto(s, Len(s) - Len(pat)), pat)
    ELSE s

\* s.split(':').next(), which is Some for every s
split_next(s) ==
    LET c == find(s, <<":">>) IN IF c = 0 THEN s ELSE upto(s, c - 1)

\* s.split(':').nth(1) is Some
split_has_nth1(s) == find(s, <<":">>) # 0

\* s.split(':').nth(1), when it is Some
split_nth1(s) == split_next(from(s, find(s, <<":">>)))

s_git_at == <<"g", "i", "t", "@">>

s_https == <<"h", "t", "t", "p", "s", ":", "/", "/">>

s_http == <<"h", "t", "t", "p", ":", "/", "/">>

s_dot_git == <<".", "g", "i", "t">>

\* ProviderType::from_remote_url
from_remote_url(url) ==
    IF contains(url, s_gitlab_com) \/ contains(url, s_gitlab) THEN RRes("Ok", <<"GitLab">>)
    ELSE IF contains(url, s_github_com) THEN RRes("Ok", <<"GitHub">>)
    ELSE ProviderDetectionFailed(url)

\* remote_url.trim_end_matches(".git").trim_end_matches('/')
TrimmedUrl(remote_url) == trim_end_matches(trim_end_matches(remote_url, s_dot_git), <<"/">>)

\* ProviderType::extract_base_url
extract_base_url(remote_url) ==
    LET failure ==
            config(<<"Unable to extract base URL from remote: ">> \o remote_url)
        url == TrimmedUrl(remote_url)
        proto_end == find(url, <<":", "/", "/">>) - 1
        after_proto == from(url, proto_end + 3)
        path_start == find(after_proto, <<"/">>) - 1
    IN  IF starts_with(remote_url, s_git_at)
        THEN RRes("Ok", s_https \o split_next(from(remote_url, Len(s_git_at))))
        ELSE IF starts_with(remote_url, s_https) \/ starts_with(remote_url, s_http)
        THEN IF proto_end >= 0 /\ path_start >= 0
             THEN RRes("Ok", upto(url, proto_end) \o <<":", "/", "/">>
                             \o upto(after_proto, path_start))
             ELSE failure
        ELSE failure

\* ProviderType::extract_project_path
extract_project_path(remote_url) ==
    LET failure ==
            config(<<"Unable to extract project path from remote: ">> \o remote_url)
        ssh_part == from(remote_url, Len(s_git_at))
        url == TrimmedUrl(remote_url)
        proto_end == find(url, <<":", "/", "/">>) - 1
        after_proto == from(url, proto_end + 3)
        path_start == find(after_proto, <<"/">>) - 1
    IN  IF starts_with(remote_url, s_git_at) /\ split_has_nth1(ssh_part)
        THEN RRes("Ok", trim_end_matches(split_nth1(ssh_part), s_dot_git))
        ELSE IF starts_with(remote_url, s_https) \/ starts_with(remote_url, s_http)
        THEN IF proto_end >= 0 /\ path_start >= 0
             THEN RRes("Ok", from(after_proto, path_start + 1))
             ELSE failure
        ELSE failure

\* the last call on subject
RemoteLast(op, res) == [op |-> op, res |-> res]

\* no &str has been handed to a ProviderType function
NoSubject ==
    /\ subject = <<>>
    /\ remote_last = RemoteLast("none", RRes("Ok", <<>>))

----------------------------------------------------------------------------
(* bt init (src/src/cli/init.rs) and the metadata file                      *)
(* (src/src/core/metadata.rs).  The working directory is a record: whether  *)
(* git finds a repository there, the remotes of that repository in the      *)
(* order git lists them, its default branch, and .git/basalt with the       *)
(* metadata file in it.  Creating the directory and writing the file are    *)
(* taken to succeed inside a repository.                                    *)

\* Most run_init and delete_metadata calls on one working directory.
MaxCalls == 2

\* Option<String>
Some(v) == [some |-> TRUE, value |-> v]

Nothing == [some |-> FALSE, value |-> <<>>]

\* METADATA_VERSION
METADATA_VERSION == "1"

\* the metadata file: whether it is there, whether serde_yaml can read it
\* as a Metadata, and the fields of the Metadata it holds
File(exists, parses, version, provider, base_branch) ==
    [exists |-> exists, parses |-> parses, version |-> version, provider |-> provider,
     base_branch |-> base_branch, base_url |-> Nothing, project_path |-> Nothing,
     auth_token |-> None]

NoFile == File(FALSE, FALSE, "", "", "")

\* a file that is not the YAML of a Metadata
CorruptFile == File(TRUE, FALSE, "", "", "")

\* Metadata::new
Metadata_new(provider, base_branch) ==
    File(TRUE, TRUE, METADATA_VERSION, provider, base_branch)

s_user_repo == <<"u", "s", "e", "r", "/", "r", "e", "p", "o">>

RemoteUrls ==
    {s_https \o s_github_com \o <<"/">> \o s_user_repo \o s_dot_git,
     s_https \o s_gitlab_com \o <<"/">> \o s_user_repo \o s_dot_git,
     s_git_at \o s_github_com \o <<":">> \o s_user_repo \o s_dot_git}

Remote(name, url) == [name |-> name, url |-> url]

\* what `git remote` can list: nothing, origin alone, or another remote
\* first and origin second
RemoteLists ==
    {<<>>}
    \cup {<<Remote("origin", u)>> : u \in RemoteUrls}
    \cup {<<Remote("upstream", u)>> : u \in RemoteUrls}
    \cup {<<Remote("upstream", u), Remote("origin", v)>> : u, v \in RemoteUrls}

\* a file of a later format: its version can be read, but it names a
\* provider this ProviderType does not have
FutureFile == File(TRUE, FALSE, "2", "bitbucket", "main")

\* the files a working directory can hold before bt runs in it
Files ==
    {NoFile, CorruptFile, FutureFile,
     File(TRUE, TRUE, "1", "gitlab", "main"),
     File(TRUE, TRUE, "2", "gitlab", "main")}

Repo(in_git, remotes, default_branch, basalt_dir, metadata) ==
    [in_git |-> in_git, remotes |-> remotes, default_branch |-> default_branch,
     basalt_dir |-> basalt_dir, metadata |-> metadata]

\* a directory outside every git repository
NotARepo == Repo(FALSE, <<>>, "main", FALSE, NoFile)

Repos ==
    {NotARepo}
    \cup {Repo(TRUE, r, "main", f.exists, f) : r \in RemoteLists, f \in Files}

\* "origin" when it is listed, the first remote otherwise
remote_name(remotes) ==
    IF \E i \in 1..Len(remotes) : remotes[i].name = "origin" THEN "origin"
    ELSE remotes[1].name

\* git::get_remote_url
get_remote_url(remotes, name) ==
    remotes[CHOOSE i \in 1..Len(remotes) : remotes[i].name = name].url

s_no_remotes == <<"No git remotes found">>

\* Mutant of detect_provider: the remote is looked at before the override.
detect_provider_remote_first(provider_override, remotes) ==
    IF remotes # <<>>
    THEN from_remote_url(get_remote_url(remotes, remote_name(remotes)))
    ELSE IF provider_override.some THEN from_str(provider_override.value)
    ELSE config(s_no_remotes)

\* init.rs detect_provider
detect_provider(provider_override, remotes) ==
    IF provider_override.some THEN from_str(provider_override.value)
    ELSE IF remotes = <<>> THEN config(s_no_remotes)
    ELSE from_remote_url(get_remote_url(remotes, remote_name(remotes)))

\* init.rs detect_base_branch; git::detect_default_branch finds the branch
\* of the repository
detect_base_branch(base_branch_override, default_branch) ==
    IF base_branch_override # None THEN base_branch_override ELSE default_branch

\* init.rs get_provider_base_url().ok()
get_provider_base_url(remotes) ==
    IF remotes = <<>> THEN Nothing
    ELSE LET r == extract_base_url(get_remote_url(remotes, remote_name(remotes)))
         IN  IF r.kind = "Ok" THEN Some(r.value) ELSE Nothing

\* init.rs get_project_path().ok()
get_project_path(remotes) ==
    IF remotes = <<>> THEN Nothing
    ELSE LET r == extract_project_path(get_remote_url(remotes, remote_name(remotes)))
         IN  IF r.kind = "Ok" THEN Some(r.value) ELSE Nothing

\* what GitLabProvider::authenticate can come to inside authenticate_provider
AuthOutcomes == {"good", "ProviderAuthRequired"}

\* Mutant of is_initialized: the metadata file is not looked for.
is_initialized_never(r) == FALSE

\* environment::is_initialized: metadata_file.exists()
is_initialized(r) == r.metadata.exists

\* init.rs authenticate_provider: Ok(token) or the error
authenticate_provider(provider, auth) ==
    IF provider = <<"GitLab">>
    THEN IF auth = "good" THEN RRes("Ok", <<auth>>) ELSE RRes(auth, <<>>)
    ELSE config(<<"GitHub authentication not yet implemented">>)

\* ProviderType as serde writes it (rename_all = "lowercase")
ProviderName(provider) == IF provider = <<"GitLab">> THEN "gitlab" ELSE "github"

AlreadyInitialized == RRes("AlreadyInitialized", <<".git/basalt">>)

NotInGitRepository == RRes("NotInGitRepository", <<>>)

MetadataNotFound == RRes("MetadataNotFound", <<>>)

YamlParse == RRes("YamlParse", <<>>)

UnsupportedMetadataVersion(version) ==
    RRes("UnsupportedMetadataVersion", <<version, METADATA_VERSION>>)

\* Metadata::validate_version
validate_version(metadata) ==
    IF metadata.version # METADATA_VERSION
    THEN UnsupportedMetadataVersion(metadata.version)
    ELSE RRes("Ok", <<>>)

\* Mutant of load_metadata_result: the version is not looked at.
load_metadata_result_unvalidated(r) ==
    IF ~r.in_git THEN NotInGitRepository
    ELSE IF ~r.metadata.exists THEN MetadataNotFound
    ELSE IF ~r.metadata.parses THEN YamlParse
    ELSE RRes("Ok", <<>>)

\* metadata.rs load_metadata: the error, or Ok for the Metadata of the file
load_metadata_result(r) ==
    IF ~r.in_git THEN NotInGitRepository
    ELSE IF ~r.metadata.exists THEN MetadataNotFound
    ELSE IF ~r.metadata.parses THEN YamlParse
    ELSE validate_version(r.metadata)

\* the arguments of run_init
InitArgs(provider_override, base_branch_override, skip_auth) ==
    [provider_override |-> provider_override,
     base_branch_override |-> base_branch_override, skip_auth |-> skip_auth]

NoInitArgs == InitArgs(Nothing, None, FALSE)

\* the last call: the directory it ran in, its arguments, its result and
\* the Metadata load_metadata returned
InitLast(op, entry, args, res, loaded) ==
    [op |-> op, entry |-> entry, args |-> args, res |-> res, loaded |-> loaded]

\* no bt command has run
NoRepo ==
    /\ repo = NotARepo
    /\ init_log = <<>>
    /\ init_last = InitLast("none", NotARepo, NoInitArgs, RRes("Ok", <<>>), NoFile)

\* nothing but the providers is in use
\* no check is running on its own
NoCheck ==
    /\ candidate = None
    /\ reply = Resp(0, {}, FALSE, "")
    /\ verify_last = [op |-> "none", res |-> GOk]

RestIdle == NoCallers /\ NoSubject /\ NoRepo /\ NoCheck

----------------------------------------------------------------------------
(* GitLabProvider *)

Last(op, res, client, calls, request, response) ==
    [op |-> op, entry_token |-> token, entry_auth |-> authenticated,
     res |-> res, client |-> client, calls |-> calls, request |-> request,
     response |-> response, params |-> NoParams]

\* the record of a call that was given a review id, or UpdateReviewParams
Given(params, call) == [call EXCEPT !.params = params]

Init ==
    /\ token = None
    /\ project_path = None
    /\ authenticated = FALSE
    /\ glabCfg \in OptToken
    /\ glabAvail \in BOOLEAN
    /\ verified = {}
    /\ last = Last("new", POk, GOk, <<>>, NoRequest, NoResponse)
    /\ gh = [installed |-> FALSE, auth_exit |-> 1, auth_stdout |-> <<>>]
    /\ GitHubProvider_new
    /\ provider_type = "GitLab"
    /\ MockProvider_new
    /\ RestIdle

set_project_path(p) ==
    /\ project_path' = p
    /\ last' = Last("set_project_path", POk, GOk, <<>>, NoRequest, NoResponse)
    /\ UNCHANGED <<token, authenticated, glabCfg, glabAvail, verified,
                 githubVars, mockVars, restVars>>

set_auth_token(t) ==
    /\ token' = t
    /\ last' = Last("set_auth_token", POk, GOk, <<>>, NoRequest, NoResponse)
    /\ UNCHANGED <<project_path, authenticated, glabCfg, glabAvail, verified,
                 githubVars, mockVars, restVars>>

check_authentication_result(auth) ==
    IF auth THEN POk
    ELSE ProviderAuthRequired(<<"Run 'bt init' or authenticate manually">>)

check_authentication ==
    /\ last' = Last("check_authentication", check_authentication_result(authenticated),
                    GOk, <<>>, NoRequest, NoResponse)
    /\ UNCHANGED <<token, project_path, authenticated, glabCfg, glabAvail, verified,
                 githubVars, mockVars, restVars>>

\* the map_err of GitLabProvider::authenticate
AuthenticateResult(e) ==
    IF e.kind = "Ok" THEN POk
    ELSE ProviderAuthRequired(<<"Authentication failed: ">> \o Display(e)
                              \o <<"\nCreate a Personal Access Token at ", PatUrl>>)

\* Mutant of AuthenticatedAfter: the flag is set whatever the client returned.
AuthenticatedAfter_always(auth, e) == TRUE

\* self.authenticated after GitLabProvider::authenticate
AuthenticatedAfter(auth, e) == IF e.kind = "Ok" THEN TRUE ELSE auth

authenticate ==
    \E o \in GitLabClient_authenticate(token, glabCfg, glabAvail) :
        /\ token' = o.token
        /\ glabCfg' = o.cfg
        /\ authenticated' = AuthenticatedAfter(authenticated, o.res)
        /\ verified' = IF o.res.kind = "Ok" THEN verified \cup {o.token} ELSE verified
        /\ last' = Last("authenticate", AuthenticateResult(o.res), o.res, o.calls, NoRequest, NoResponse)
        /\ UNCHANGED <<project_path, glabAvail, githubVars, mockVars, restVars>>

\* GitLabProvider::parse_review_state
parse_review_state(state) ==
    CASE state = "opened" -> "Open"
      [] state = "closed" -> "Closed"
      [] state = "merged" -> "Merged"
      [] OTHER -> "Open"

\* GitLabProvider::mr_to_review
mr_to_review(mr) ==
    [id |-> U64ToString(mr.iid), title |-> mr.title, description |-> mr.description,
     state |-> parse_review_state(mr.state), url |-> mr.web_url,
     source_branch |-> mr.source_branch, target_branch |-> mr.target_branch,
     draft |-> mr.draft]

CreateParams ==
    [source_branch : {"feature"}, target_branch : {"main"}, title : {"T"},
     description : {None, "D"}, draft : BOOLEAN]

UpdateParams ==
    [review_id : ReviewIds, title : {None, "T2"}, description : {None},
     target_branch : {None, "dev"}, draft : {None, "true"}]

\* Result<Review> of a client call, after map_err and mr_to_review
ReviewResult(c, what) ==
    IF c.res.kind = "Ok" THEN PRes("Ok", <<>>, mr_to_review(c.mr))
    ELSE provider_op(<<what>> \o Display(c.res))

create_review(params) ==
    /\ \/ /\ project_path = None
          /\ last' = Last("create_review", provider_op(<<"Project path not set">>),
                          GOk, <<>>, NoRequest, NoResponse)
       \/ /\ project_path # None
          /\ \E c \in create_merge_request(token, params) :
                last' = Last("create_review",
                             ReviewResult(c, "Failed to create merge request: "),
                             c.res, <<>>, c.request, c.response)
    /\ UNCHANGED <<token, project_path, authenticated, glabCfg, glabAvail, verified,
                 githubVars, mockVars, restVars>>

update_review(params) ==
    /\ \/ /\ project_path = None
          /\ last' = Given(params, Last("update_review", provider_op(<<"Project path not set">>),
                          GOk, <<>>, NoRequest, NoResponse))
       \/ /\ project_path # None
          /\ ~ParseU64(params.review_id).ok
          /\ last' = Given(params, Last("update_review",
                          provider_op(<<"Invalid MR ID: ">> \o params.review_id),
                          GOk, <<>>, NoRequest, NoResponse))
       \/ /\ project_path # None
          /\ ParseU64(params.review_id).ok
          /\ LET update_params == [title |-> params.title,
                                   description |-> params.description,
                                   target_branch |-> params.target_branch,
                                   draft |-> None]
             IN \E c \in update_merge_request(token, ParseU64(params.review_id).value,
                                              update_params) :
                   last' = Given(params, Last("update_review",
                                ReviewResult(c, "Failed to update merge request: "),
                                c.res, <<>>, c.request, c.response))
    /\ UNCHANGED <<token, project_path, authenticated, glabCfg, glabAvail, verified,
                 githubVars, mockVars, restVars>>

get_review(review_id) ==
    /\ \/ /\ project_path = None
          /\ last' = Given([NoParams EXCEPT !.review_id = review_id], Last("get_review", provider_op(<<"Project path not set">>),
                          GOk, <<>>, NoRequest, NoResponse))
       \/ /\ project_path # None
          /\ ~ParseU64(review_id).ok
          /\ last' = Given([NoParams EXCEPT !.review_id = review_id], Last("get_review", provider_op(<<"Invalid MR ID: ">> \o review_id),
                          GOk, <<>>, NoRequest, NoResponse))
       \/ /\ project_path # None
          /\ ParseU64(review_id).ok
          /\ \E c \in get_merge_request(token, ParseU64(review_id).value) :
                last' = Given([NoParams EXCEPT !.review_id = review_id], Last("get_review",
                             ReviewResult(c, "Failed to get merge request: "),
                             c.res, <<>>, c.request, c.response))
    /\ UNCHANGED <<token, project_path, authenticated, glabCfg, glabAvail, verified,
                 githubVars, mockVars, restVars>>

find_review_for_branch ==
    /\ last' = Last("find_review_for_branch",
                    provider_op(<<"GitLab MR lookup by branch not yet implemented">>),
                    GOk, <<>>, NoRequest, NoResponse)
    /\ UNCHANGED <<token, project_path, authenticated, glabCfg, glabAvail, verified,
                 githubVars, mockVars, restVars>>

Next ==
    \/ \E p \in ProjectPaths : set_project_path(p)
    \/ \E t \in Tokens : set_auth_token(t)
    \/ check_authentication
    \/ authenticate
    \/ \E params \in CreateParams : create_review(params)
    \/ \E params \in UpdateParams : update_review(params)
    \/ \E id \in ReviewIds : get_review(id)
    \/ find_review_for_branch

Spec == Init /\ [][Next]_vars

----------------------------------------------------------------------------
(* GitHubProvider: the state machine.  The provider has no fields; the gh   *)
(* CLI is as it is on the machine and does not change.                      *)

\* a GitLabProvider that is constructed and not used
GitLabProvider_new ==
    /\ token = None
    /\ project_path = None
    /\ authenticated = FALSE
    /\ glabCfg = None
    /\ glabAvail = FALSE
    /\ verified = {}
    /\ last = Last("new", POk, GOk, <<>>, NoRequest, NoResponse)

InitGitHub ==
    /\ gh \in GhCli
    /\ GitHubProvider_new
    /\ GitLabProvider_new
    /\ provider_type = "GitHub"
    /\ MockProvider_new
    /\ RestIdle

GitHub_check_cli_available ==
    /\ gh_last' = GhLast("check_cli_available", NoArgs, GitHub_check_cli_available_result(gh))
    /\ UNCHANGED <<gh, gitlabVars, mockVars, restVars>>

GitHub_check_authentication ==
    /\ gh_last' = GhLast("check_authentication", NoArgs,
                         GitHub_check_authentication_result(gh))
    /\ UNCHANGED <<gh, gitlabVars, mockVars, restVars>>

GitHub_create_review(params) ==
    /\ gh_last' = GhLast("create_review",
                         Args(<<>>, [params EXCEPT !.draft = BoolStr(params.draft)],
                              params.source_branch),
                         GitHub_create_review_result(params))
    /\ UNCHANGED <<gh, gitlabVars, mockVars, restVars>>

GitHub_update_review(params) ==
    /\ gh_last' = GhLast("update_review", Args(params.review_id, params, None),
                         GitHub_update_review_result(params))
    /\ UNCHANGED <<gh, gitlabVars, mockVars, restVars>>

GitHub_get_review(review_id) ==
    /\ gh_last' = GhLast("get_review", Args(review_id, NoParams, None),
                         GitHub_get_review_result(review_id))
    /\ UNCHANGED <<gh, gitlabVars, mockVars, restVars>>

GitHub_find_review_for_branch(branch) ==
    /\ gh_last' = GhLast("find_review_for_branch", Args(<<>>, NoParams, branch),
                         GitHub_find_review_for_branch_result(branch))
    /\ UNCHANGED <<gh, gitlabVars, mockVars, restVars>>

NextGitHub ==
    \/ GitHub_check_cli_available
    \/ GitHub_check_authentication
    \/ \E params \in CreateParams : GitHub_create_review(params)
    \/ \E params \in UpdateParams : GitHub_update_review(params)
    \/ \E id \in ReviewIds : GitHub_get_review(id)
    \/ \E branch \in Branches : GitHub_find_review_for_branch(branch)

SpecGitHub == InitGitHub /\ [][NextGitHub]_vars

----------------------------------------------------------------------------
(* MockProvider: the state machine.  Every operation takes the lock for its *)
(* whole body, so each is one step.  The operations on the review table,    *)
(* the branch index, the id counter and the failure flags are modelled;     *)
(* cli_available and authenticated, which no review operation reads, stay   *)
(* as MockProvider::new leaves them.                                        *)

MockCreateParams ==
    [source_branch : Branches, target_branch : {"main"}, title : {"T"},
     description : {None}, draft : {FALSE}]

\* the ids the provider can have given out, and one it has not
MockIds == {FormatId(provider_type, n) : n \in 1..MaxReviews} \cup {<<"9">>}

MockUpdateParams ==
    [review_id : MockIds, title : {None, "T2"}, description : {None},
     target_branch : {None}, draft : {None}]

InitMock ==
    /\ provider_type \in ProviderTypes
    /\ MockProvider_new
    /\ GitLabProvider_new
    /\ gh = [installed |-> FALSE, auth_exit |-> 1, auth_stdout |-> <<>>]
    /\ GitHubProvider_new
    /\ RestIdle

Mock_fail_next_create ==
    /\ mock_state' = [mock_state EXCEPT !.should_fail_create = TRUE]
    /\ mock_last' = MockLast("fail_next_create", NoArgs, POk, FALSE)
    /\ UNCHANGED <<provider_type, created, updated, gitlabVars, githubVars, restVars>>

Mock_fail_next_update ==
    /\ mock_state' = [mock_state EXCEPT !.should_fail_update = TRUE]
    /\ mock_last' = MockLast("fail_next_update", NoArgs, POk, FALSE)
    /\ UNCHANGED <<provider_type, created, updated, gitlabVars, githubVars, restVars>>

Mock_fail_next_get ==
    /\ mock_state' = [mock_state EXCEPT !.should_fail_get = TRUE]
    /\ mock_last' = MockLast("fail_next_get", NoArgs, POk, FALSE)
    /\ UNCHANGED <<provider_type, created, updated, gitlabVars, githubVars, restVars>>

\* Mutant of clear_reviews: the id counter keeps its value.
clear_reviews_keep_counter(st) ==
    [st EXCEPT !.reviews = EmptyMap, !.branch_to_review = EmptyMap]

\* Mutant of clear_reviews: the branch index is left as it is.
clear_reviews_keep_index(st) == [st EXCEPT !.reviews = EmptyMap, !.next_id = 1]

\* MockProvider::clear_reviews: the state it leaves
clear_reviews(st) ==
    [st EXCEPT !.reviews = EmptyMap, !.branch_to_review = EmptyMap, !.next_id = 1]

\* MockProvider::review_count
review_count(st) == Cardinality(DOMAIN st.reviews)

\* whether find_review_for_branch gives Some(review)
find_review_is_some(st, branch) ==
    /\ branch \in DOMAIN st.branch_to_review
    /\ st.branch_to_review[branch] \in DOMAIN st.reviews

Mock_clear_reviews ==
    /\ mock_state' = clear_reviews(mock_state)
    /\ created' = <<>>
    /\ updated' = {}
    /\ mock_last' = MockLast("clear_reviews", NoArgs, POk, FALSE)
    /\ UNCHANGED <<provider_type, gitlabVars, githubVars, restVars>>

\* Mutant of Mock_create_review: an injected failure uses up an id.
Mock_create_review_failure_takes_id(params) ==
    /\ mock_state.next_id <= MaxReviews
    /\ LET args == Args(<<>>, [params EXCEPT !.draft = BoolStr(params.draft)],
                        params.source_branch)
       IN \/ /\ mock_state.should_fail_create
             /\ mock_state' = [mock_state EXCEPT !.should_fail_create = FALSE,
                                                !.next_id = @ + 1]
             /\ mock_last' = MockLast("create_review", args,
                                      provider_op(<<"Simulated create failure">>), FALSE)
             /\ UNCHANGED <<created, updated>>
          \/ /\ ~mock_state.should_fail_create
             /\ LET next == next_review_id(mock_state, provider_type)
                    review_id == next.id
                    url == MockUrl(provider_type, review_id)
                    review == NewReview(review_id, url, params)
                IN  /\ mock_state' =
                          [next.state EXCEPT
                              !.reviews = Insert(@, review_id, review),
                              !.branch_to_review =
                                  IndexBranch(@, params.source_branch, review_id)]
                    /\ created' = Append(created, review)
                    /\ updated' = updated \ {review_id}
                    /\ mock_last' = MockLast("create_review", args,
                                             PRes("Ok", <<>>, review), FALSE)
    /\ UNCHANGED <<provider_type, gitlabVars, githubVars, restVars>>

\* MockProvider::create_review
Mock_create_review(params) ==
    /\ mock_state.next_id <= MaxReviews
    /\ LET args == Args(<<>>, [params EXCEPT !.draft = BoolStr(params.draft)],
                        params.source_branch)
       IN \/ /\ mock_state.should_fail_create
             /\ mock_state' = [mock_state EXCEPT !.should_fail_create = FALSE]
             /\ mock_last' = MockLast("create_review", args,
                                      provider_op(<<"Simulated create failure">>), FALSE)
             /\ UNCHANGED <<created, updated>>
          \/ /\ ~mock_state.should_fail_create
             /\ LET next == next_review_id(mock_state, provider_type)
                    review_id == next.id
                    url == MockUrl(provider_type, review_id)
                    review == NewReview(review_id, url, params)
                IN  /\ mock_state' =
                          [next.state EXCEPT
                              !.reviews = Insert(@, review_id, review),
                              !.branch_to_review =
                                  IndexBranch(@, params.source_branch, review_id)]
                    /\ created' = Append(created, review)
                    /\ updated' = updated \ {review_id}
                    /\ mock_last' = MockLast("create_review", args,
                                             PRes("Ok", <<>>, review), FALSE)
    /\ UNCHANGED <<provider_type, gitlabVars, githubVars, restVars>>

Mock_update_review(params) ==
    /\ LET args == Args(params.review_id, params, None)
       IN \/ /\ mock_state.should_fail_update
             /\ mock_state' = [mock_state EXCEPT !.should_fail_update = FALSE]
             /\ mock_last' = MockLast("update_review", args,
                                      provider_op(<<"Simulated update failure">>), FALSE)
             /\ UNCHANGED updated
          \/ /\ ~mock_state.should_fail_update
             /\ params.review_id \notin DOMAIN mock_state.reviews
             /\ mock_last' = MockLast("update_review", args,
                                      ReviewNotFound(params.review_id), FALSE)
             /\ UNCHANGED <<mock_state, updated>>
          \/ /\ ~mock_state.should_fail_update
             /\ params.review_id \in DOMAIN mock_state.reviews
             /\ LET review == ApplyUpdate(mock_state.reviews[params.review_id], params)
                IN  /\ mock_state' =
                          [mock_state EXCEPT !.reviews[params.review_id] = review]
                    /\ updated' = updated \cup {params.review_id}
                    /\ mock_last' = MockLast("update_review", args,
                                             PRes("Ok", <<>>, review), FALSE)
    /\ UNCHANGED <<provider_type, created, gitlabVars, githubVars, restVars>>

Mock_get_review(review_id) ==
    /\ mock_last' = MockLast("get_review", Args(review_id, NoParams, None),
                             Mock_get_review_result(mock_state, review_id), FALSE)
    /\ UNCHANGED <<mock_state, provider_type, created, updated, gitlabVars, githubVars, restVars>>

Mock_find_review_for_branch(branch) ==
    /\ LET args == Args(<<>>, NoParams, branch)
           index == mock_state.branch_to_review
           found == find_review_is_some(mock_state, branch)
       IN  mock_last' =
               IF found
               THEN MockLast("find_review_for_branch", args,
                             PRes("Ok", <<>>, mock_state.reviews[index[branch]]), TRUE)
               ELSE MockLast("find_review_for_branch", args, POk, FALSE)
    /\ UNCHANGED <<mock_state, provider_type, created, updated, gitlabVars, githubVars, restVars>>

NextMock ==
    \/ Mock_fail_next_create
    \/ Mock_fail_next_update
    \/ Mock_fail_next_get
    \/ Mock_clear_reviews
    \/ \E params \in MockCreateParams : Mock_create_review(params)
    \/ \E params \in MockUpdateParams : Mock_update_review(params)
    \/ \E id \in MockIds : Mock_get_review(id)
    \/ \E branch \in Branches : Mock_find_review_for_branch(branch)

SpecMock == InitMock /\ [][NextMock]_vars

----------------------------------------------------------------------------
(* The MockProvider with its test switches: CLI availability and            *)
(* authentication are set by the test, reviews are created, read and        *)
(* cleared.                                                                  *)

Mock_set_cli_available(available) ==
    /\ mock_state' = [mock_state EXCEPT !.cli_available = available]
    /\ mock_last' = MockLast("set_cli_available", NoArgs, POk, FALSE)
    /\ UNCHANGED <<provider_type, created, updated, gitlabVars, githubVars, restVars>>

Mock_set_authenticated(auth) ==
    /\ mock_state' = [mock_state EXCEPT !.authenticated = auth]
    /\ mock_last' = MockLast("set_authenticated", NoArgs, POk, FALSE)
    /\ UNCHANGED <<provider_type, created, updated, gitlabVars, githubVars, restVars>>

NextMockSwitches ==
    \/ \E available \in BOOLEAN : Mock_set_cli_available(available)
    \/ \E auth \in BOOLEAN : Mock_set_authenticated(auth)
    \/ Mock_fail_next_create
    \/ Mock_fail_next_update
    \/ Mock_fail_next_get
    \/ Mock_clear_reviews
    \/ \E params \in MockCreateParams : Mock_create_review(params)
    \/ \E id \in MockIds : Mock_get_review(id)
    \/ \E branch \in Branches : Mock_find_review_for_branch(branch)

SpecMockSwitches == InitMock /\ [][NextMockSwitches]_vars

----------------------------------------------------------------------------
(* MockProvider shared by concurrent callers: create_review one statement   *)
(* at a time, from taking the lock (mock.rs:161) to dropping the guard on   *)
(* return, and fail_next_create, which holds the lock for its one           *)
(* statement.                                                               *)

InitMockThreads ==
    /\ provider_type \in ProviderTypes
    /\ MockProvider_new
    /\ GitLabProvider_new
    /\ gh = [installed |-> FALSE, auth_exit |-> 1, auth_stdout |-> <<>>]
    /\ GitHubProvider_new
    /\ RestIdle

\* the rest of the state, which no caller of the mock touches
threadFrame ==
    <<provider_type, updated, mock_last, gitlabVars, githubVars, remoteVars, repoVars,
      verifyVars>>

\* let mut state = self.state.lock().unwrap();
Thread_lock(t, params) ==
    /\ pc[t] \in {"idle", "done"}
    /\ mock_state.next_id <= MaxReviews
    /\ CanLock(lock)
    /\ lock' = t
    /\ pc' = [pc EXCEPT ![t] = "locked"]
    /\ local' = [local EXCEPT ![t] = [NoLocal EXCEPT !.params = params]]
    /\ UNCHANGED <<mock_state, created, threadFrame>>

\* if state.should_fail_create { .. return Err(..) }
Thread_check(t) ==
    /\ pc[t] = "locked"
    /\ IF mock_state.should_fail_create
       THEN /\ mock_state' = [mock_state EXCEPT !.should_fail_create = FALSE]
            /\ local' = [local EXCEPT
                            ![t].res = provider_op(<<"Simulated create failure">>)]
            /\ lock' = None
            /\ pc' = [pc EXCEPT ![t] = "done"]
       ELSE /\ pc' = [pc EXCEPT ![t] = "next_id"]
            /\ UNCHANGED <<mock_state, local, lock>>
    /\ UNCHANGED <<created, threadFrame>>

\* let id = state.next_id;
Thread_read_next_id(t) ==
    /\ pc[t] = "next_id"
    /\ local' = [local EXCEPT ![t].id = mock_state.next_id]
    /\ pc' = [pc EXCEPT ![t] = "increment"]
    /\ UNCHANGED <<mock_state, lock, created, threadFrame>>

\* state.next_id += 1; and the id is formatted
Thread_increment(t) ==
    /\ pc[t] = "increment"
    /\ mock_state' = [mock_state EXCEPT !.next_id = @ + 1]
    /\ local' = [local EXCEPT ![t].review_id = FormatId(provider_type, local[t].id)]
    /\ pc' = [pc EXCEPT ![t] = "insert"]
    /\ UNCHANGED <<lock, created, threadFrame>>

\* the Review a caller has built from its review_id and params
ThreadReview(t) ==
    NewReview(local[t].review_id, MockUrl(provider_type, local[t].review_id),
              local[t].params)

\* state.reviews.insert(review_id.clone(), review.clone());
Thread_insert(t) ==
    /\ pc[t] = "insert"
    /\ mock_state' = [mock_state EXCEPT
                         !.reviews = Insert(@, local[t].review_id, ThreadReview(t))]
    /\ pc' = [pc EXCEPT ![t] = "index"]
    /\ UNCHANGED <<lock, local, created, threadFrame>>

\* state.branch_to_review.insert(params.source_branch, review_id);
Thread_index(t) ==
    /\ pc[t] = "index"
    /\ mock_state' = [mock_state EXCEPT
                         !.branch_to_review =
                             IndexBranch(@, local[t].params.source_branch,
                                         local[t].review_id)]
    /\ pc' = [pc EXCEPT ![t] = "return"]
    /\ UNCHANGED <<lock, local, created, threadFrame>>

\* Ok(review), and the guard is dropped
Thread_return(t) ==
    /\ pc[t] = "return"
    /\ local' = [local EXCEPT ![t].res = PRes("Ok", <<>>, ThreadReview(t))]
    /\ created' = Append(created, ThreadReview(t))
    /\ lock' = None
    /\ pc' = [pc EXCEPT ![t] = "done"]
    /\ UNCHANGED <<mock_state, threadFrame>>

\* self.state.lock().unwrap().should_fail_create = true;
Thread_fail_next_create(t) ==
    /\ pc[t] \in {"idle", "done"}
    /\ CanLock(lock)
    /\ mock_state' = [mock_state EXCEPT !.should_fail_create = TRUE]
    /\ UNCHANGED <<lock, pc, local, created, threadFrame>>

NextMockThreads ==
    \E t \in Threads :
        \/ \E params \in MockCreateParams : Thread_lock(t, params)
        \/ Thread_check(t)
        \/ Thread_read_next_id(t)
        \/ Thread_increment(t)
        \/ Thread_insert(t)
        \/ Thread_index(t)
        \/ Thread_return(t)
        \/ Thread_fail_next_create(t)

SpecMockThreads == InitMockThreads /\ [][NextMockThreads]_vars

----------------------------------------------------------------------------
(* ProviderType's functions applied to one &str.  The string is either a    *)
(* provider name, as --provider gives it, or a remote put together from a   *)
(* prefix, a host, a path and a suffix.                                     *)

\* the upper-case form of an ASCII character
ToUpperChar(c) ==
    IF \E i \in 1..Len(LowerCase) : LowerCase[i] = c
    THEN UpperCase[CHOOSE i \in 1..Len(LowerCase) : LowerCase[i] = c]
    ELSE c

\* every way of writing w in upper and lower case
RECURSIVE Casings(_)
Casings(w) ==
    IF w = <<>> THEN {<<>>}
    ELSE {<<c>> \o r : c \in {w[1], ToUpperChar(w[1])}, r \in Casings(Tail(w))}

\* strings that are no provider name in any casing
OtherNames ==
    {<<>>, <<"g", "i", "t">>, <<"g", "i", "t", "l", "a", "b", " ">>, <<"g", "i", "t", "l", "a", "b", "x">>, <<"h", "u", "b">>, s_gitlab_com}

ProviderNames == Casings(s_gitlab) \cup Casings(s_github) \cup OtherNames

s_alice_at == <<"a", "l", "i", "c", "e", "@">>

SshPrefixes == {s_git_at, s_alice_at}

HttpPrefixes == {s_https, s_http}

\* user@ of an SSH-style remote, the scheme of an HTTPS-style one, or nothing
Prefixes == SshPrefixes \cup HttpPrefixes \cup {<<>>}

s_example_com == <<"e", "x", "a", "m", "p", "l", "e", ".", "c", "o", "m">>

Hosts == {s_gitlab_com, s_github_com, s_example_com}

Paths == {s_user_repo, <<"g", "/", "s", "u", "b", "/", "r", "e", "p", "o">>, <<"m", "e", "/", "g", "i", "t", "l", "a", "b">>, <<"g", "i", "t", "h", "u", "b", ".", "c", "o", "m", "/", "x">>}

Suffixes == {<<>>, s_dot_git, <<"/">>, s_dot_git \o <<"/">>}

RemoteParts == [prefix : Prefixes, host : Hosts, path : Paths, suffix : Suffixes]

\* what stands between host and path
Separator(prefix) == IF prefix \in SshPrefixes THEN <<":">> ELSE <<"/">>

\* the remote with these parts
Build(p) == p.prefix \o p.host \o Separator(p.prefix) \o p.path \o p.suffix

\* a remote with a host and no path part
HostOnly == {prefix \o host : prefix \in Prefixes, host \in Hosts}

Subjects == ProviderNames \cup {Build(p) : p \in RemoteParts} \cup HostOnly

InitRemote ==
    /\ subject \in Subjects
    /\ remote_last = RemoteLast("none", RRes("Ok", <<>>))
    /\ GitLabProvider_new
    /\ gh = [installed |-> FALSE, auth_exit |-> 1, auth_stdout |-> <<>>]
    /\ GitHubProvider_new
    /\ provider_type = "GitLab"
    /\ MockProvider_new
    /\ NoCallers
    /\ NoRepo
    /\ NoCheck

remoteFrame ==
    <<subject, gitlabVars, githubVars, mockVars, threadVars, repoVars, verifyVars>>

Remote_from_str ==
    /\ remote_last' = RemoteLast("from_str", from_str(subject))
    /\ UNCHANGED remoteFrame

Remote_from_remote_url ==
    /\ remote_last' = RemoteLast("from_remote_url", from_remote_url(subject))
    /\ UNCHANGED remoteFrame

Remote_extract_base_url ==
    /\ remote_last' = RemoteLast("extract_base_url", extract_base_url(subject))
    /\ UNCHANGED remoteFrame

Remote_extract_project_path ==
    /\ remote_last' = RemoteLast("extract_project_path", extract_project_path(subject))
    /\ UNCHANGED remoteFrame

NextRemote ==
    \/ Remote_from_str
    \/ Remote_from_remote_url
    \/ Remote_extract_base_url
    \/ Remote_extract_project_path

SpecRemote == InitRemote /\ [][NextRemote]_vars

----------------------------------------------------------------------------
(* bt init, load_metadata and delete_metadata in one working directory.     *)

ProviderOverrides ==
    {Nothing, Some(s_gitlab), Some(<<"G", "i", "t", "H", "u", "b">>), Some(<<"h", "u", "b">>)}

BaseBranchOverrides == {None, "develop"}

InitBt ==
    /\ repo \in Repos
    /\ init_log = <<>>
    /\ init_last = InitLast("none", NotARepo, NoInitArgs, RRes("Ok", <<>>), NoFile)
    /\ GitLabProvider_new
    /\ gh = [installed |-> FALSE, auth_exit |-> 1, auth_stdout |-> <<>>]
    /\ GitHubProvider_new
    /\ provider_type = "GitLab"
    /\ MockProvider_new
    /\ NoCallers
    /\ NoSubject
    /\ NoCheck

repoFrame == <<gitlabVars, githubVars, mockVars, threadVars, remoteVars, verifyVars>>

\* Mutant of init_and_save: the metadata is saved before authentication.
init_and_save_before_auth(r, provider, base_branch, skip_auth, auth) ==
    LET dir == [r EXCEPT !.basalt_dir = TRUE]
        base_url == get_provider_base_url(r.remotes)
        path == get_project_path(r.remotes)
        metadata == [Metadata_new(ProviderName(provider), base_branch) EXCEPT
                        !.base_url = base_url, !.project_path = path]
        auth_token == authenticate_provider(provider, auth)
    IN  IF ~skip_auth /\ base_url.some /\ path.some
        THEN IF auth_token.kind # "Ok"
             THEN [res |-> auth_token, repo |-> [dir EXCEPT !.metadata = metadata]]
             ELSE [res |-> RRes("Ok", <<>>),
                   repo |-> [dir EXCEPT
                                !.metadata = [metadata EXCEPT !.auth_token = auth_token.value[1]]]]
        ELSE [res |-> RRes("Ok", <<>>), repo |-> [dir EXCEPT !.metadata = metadata]]

\* run_init from create_basalt_dir on: the result and the directory it leaves
init_and_save(r, provider, base_branch, skip_auth, auth) ==
    LET dir == [r EXCEPT !.basalt_dir = TRUE]
        base_url == get_provider_base_url(r.remotes)
        path == get_project_path(r.remotes)
        metadata == [Metadata_new(ProviderName(provider), base_branch) EXCEPT
                        !.base_url = base_url, !.project_path = path]
        auth_token == authenticate_provider(provider, auth)
    IN  IF ~skip_auth /\ base_url.some /\ path.some
        THEN IF auth_token.kind # "Ok" THEN [res |-> auth_token, repo |-> dir]
             ELSE [res |-> RRes("Ok", <<>>),
                   repo |-> [dir EXCEPT
                                !.metadata = [metadata EXCEPT !.auth_token = auth_token.value[1]]]]
        ELSE [res |-> RRes("Ok", <<>>), repo |-> [dir EXCEPT !.metadata = metadata]]

\* init.rs run_init: the result and the directory it leaves
run_init_outcome(r, args, auth) ==
    LET provider == detect_provider(args.provider_override, r.remotes)
        base_branch == detect_base_branch(args.base_branch_override, r.default_branch)
    IN  IF ~r.in_git THEN [res |-> NotInGitRepository, repo |-> r]
        ELSE IF is_initialized(r) THEN [res |-> AlreadyInitialized, repo |-> r]
        ELSE IF provider.kind # "Ok" THEN [res |-> provider, repo |-> r]
        ELSE init_and_save(r, provider.value, base_branch, args.skip_auth, auth)

LogEntry(op, res) == [op |-> op, res |-> res]

run_init(provider_override, base_branch_override, skip_auth) ==
    /\ Len(init_log) < MaxCalls
    /\ \E auth \in AuthOutcomes :
          LET args == InitArgs(provider_override, base_branch_override, skip_auth)
              out == run_init_outcome(repo, args, auth)
          IN  /\ repo' = out.repo
              /\ init_log' = Append(init_log, LogEntry("run_init", out.res))
              /\ init_last' = InitLast("run_init", repo, args, out.res, NoFile)
    /\ UNCHANGED repoFrame

load_metadata ==
    /\ LET res == load_metadata_result(repo)
       IN  init_last' = InitLast("load_metadata", repo, NoInitArgs, res,
                                 IF res.kind = "Ok" THEN repo.metadata ELSE NoFile)
    /\ UNCHANGED <<repo, init_log, repoFrame>>

delete_metadata ==
    /\ Len(init_log) < MaxCalls
    /\ LET res == IF repo.in_git THEN RRes("Ok", <<>>) ELSE NotInGitRepository
       IN  /\ repo' = IF repo.in_git THEN [repo EXCEPT !.metadata = NoFile] ELSE repo
           /\ init_log' = Append(init_log, LogEntry("delete_metadata", res))
           /\ init_last' = InitLast("delete_metadata", repo, NoInitArgs, res, NoFile)
    /\ UNCHANGED repoFrame

NextBt ==
    \/ \E provider_override \in ProviderOverrides,
          base_branch_override \in BaseBranchOverrides, skip_auth \in BOOLEAN :
          run_init(provider_override, base_branch_override, skip_auth)
    \/ load_metadata
    \/ delete_metadata

SpecBt == InitBt /\ [][NextBt]_vars

----------------------------------------------------------------------------
(* The two checks of the remote verifier, each on its own: the client       *)
(* holds a token or none, and the server answers with any status.           *)

Statuses == {0, 200, 201, 400, 401, 403, 404, 500}

\* what the server can send back to a check, or nothing (status 0)
Replies ==
    [status : Statuses, scopes : SUBSET {RequiredScope, "read_user"},
     active : BOOLEAN, body : {"json"}]

\* the outcome of one check for the token held and the reply received
CheckResult(tok, check) == IF tok = None THEN GErr("NoTokenAvailable") ELSE check

InitVerify ==
    /\ candidate \in OptToken
    /\ reply \in Replies
    /\ verify_last = [op |-> "none", res |-> GOk]
    /\ GitLabProvider_new
    /\ gh = [installed |-> FALSE, auth_exit |-> 1, auth_stdout |-> <<>>]
    /\ GitHubProvider_new
    /\ provider_type = "GitLab"
    /\ MockProvider_new
    /\ NoCallers
    /\ NoSubject
    /\ NoRepo

verifyFrame ==
    <<candidate, reply, gitlabVars, githubVars, mockVars, threadVars, remoteVars, repoVars>>

Verify_verify_auth ==
    /\ verify_last' = [op |-> "verify_auth",
                       res |-> CheckResult(candidate, IdentityCheck(reply))]
    /\ UNCHANGED verifyFrame

Verify_verify_token_scopes ==
    /\ verify_last' = [op |-> "verify_token_scopes",
                       res |-> CheckResult(candidate, ScopeCheck(reply))]
    /\ UNCHANGED verifyFrame

NextVerify ==
    \/ Verify_verify_auth
    \/ Verify_verify_token_scopes

SpecVerify == InitVerify /\ [][NextVerify]_vars

----------------------------------------------------------------------------
(* Reading the record of the last call *)

IsAuth == last.op = "authenticate"

Log == last.calls

VerifyFns == {"verify_token_scopes", "verify_auth"}

SourceFns == {"try_glab_token", "git credential fill", "try_cli_auth", "prompt_for_token"}

Rank(fn) ==
    CASE fn = "try_glab_token" -> 1
      [] fn = "git credential fill" -> 2
      [] fn = "try_cli_auth" -> 3
      [] fn = "prompt_for_token" -> 4

IsSource(i) == Log[i].fn \in SourceFns

IsProbe(i) == Log[i].fn \notin VerifyFns

Count(fn) == Cardinality({i \in DOMAIN Log : Log[i].fn = fn})

\* the calls of the cached-token step: none, the scope check alone, or both checks
CachedLen ==
    IF last.entry_token = None THEN 0
    ELSE IF Log[1].res = "Ok" THEN 2 ELSE 1

CachedFailed == last.entry_token # None /\ Log[CachedLen].res # "Ok"

ChainRan == last.entry_token = None \/ CachedFailed

\* the token the probe chain produced, None when it produced none
ProbedToken ==
    IF \E i \in DOMAIN Log : IsProbe(i) /\ Log[i].tok # None
    THEN Log[CHOOSE i \in DOMAIN Log : IsProbe(i) /\ Log[i].tok # None].tok
    ELSE None

Range(seq) == {seq[i] : i \in DOMAIN seq}

\* what the server says of a token, whenever it is asked
TokenLacksScope(tok) ==
    \A r \in IntrospectResponses(tok) : IsSuccess(r.status) /\ RequiredScope \notin r.scopes

TokenPassesIdentity(tok) == \A r \in IdentityResponses(tok) : IsSuccess(r.status)

----------------------------------------------------------------------------
(* Claims *)

\* C1: in authenticate(), once no cached token is held, the sources are
\* consulted in the order glab config, credential helper, CLI-auth choice,
\* manual prompt, none is skipped, and nothing is consulted after the first
\* source that yields a token; with a token in the glab config the helper,
\* the CLI-auth choice and the prompt are never invoked.
C1_ProbeOrder ==
    IsAuth =>
      /\ ChainRan => Log[CachedLen + 1].fn = "try_glab_token"
      /\ \A i, j \in DOMAIN Log :
            (i < j /\ IsSource(i) /\ IsSource(j)) =>
               /\ Rank(Log[i].fn) <= Rank(Log[j].fn)
               /\ Rank(Log[i].fn) = Rank(Log[j].fn) => Log[i].fn = "git credential fill"
      /\ \A j \in DOMAIN Log :
            (IsSource(j) /\ Rank(Log[j].fn) > 1) =>
               \E i \in 1..(j - 1) : IsSource(i) /\ Rank(Log[i].fn) = Rank(Log[j].fn) - 1
      /\ \A i \in DOMAIN Log :
            (IsProbe(i) /\ Log[i].tok # None) =>
               \A j \in DOMAIN Log : j > i => Log[j].fn \in VerifyFns
      /\ (\E i \in DOMAIN Log : Log[i].fn = "try_glab_token" /\ Log[i].tok # None) =>
            \A j \in DOMAIN Log : Log[j].fn \in VerifyFns \cup {"try_glab_token"}

C1_Witness ==
    /\ IsAuth
    /\ last.entry_token = None
    /\ Len(Log) > 1
    /\ Log[1].fn = "try_glab_token"
    /\ Log[1].tok # None

\* C2: a credential that passes the identity check but lacks the 'api' scope
\* is never the credential the client holds after authenticate() has ended
\* on it, and the provider does not report authenticated.
C2_NeverCached ==
    \A t \in Tokens :
        ( /\ IsAuth
          /\ TokenLacksScope(t) /\ TokenPassesIdentity(t)
          /\ Len(Log) > 0
          /\ Log[Len(Log)] = Ev("verify_token_scopes", t, "MissingScope") )
        => /\ last.client.kind # "Ok"
           /\ token # t
           /\ ~authenticated

\* C3: while check_authentication() returns an error, no create_review,
\* update_review or get_review call succeeds.
C3_NoReviewUnauthenticated ==
    ( /\ last.op \in {"create_review", "update_review", "get_review"}
      /\ check_authentication_result(authenticated).kind # "Ok" )
    => last.res.kind # "Ok"

\* C4: whenever check_authentication() returns Ok, the client holds a token
\* and that token has passed both verification checks.
C4_AuthenticatedHoldsVerified ==
    check_authentication_result(authenticated).kind = "Ok"
    => (token # None /\ token \in verified)

\* C5: when the token held at the call fails verification, it is discarded
\* and the chain continues with the glab config step; the call does not end
\* on the held token's error.
C5_CachedFallsThrough ==
    (IsAuth /\ CachedFailed) =>
      /\ Len(Log) > CachedLen
      /\ Log[CachedLen + 1].fn = "try_glab_token"
      /\ token = ProbedToken
      /\ ProbedToken = None => last.client.kind = "NoTokenAvailable"

C5_Witness ==
    /\ IsAuth
    /\ CachedFailed
    /\ Log[CachedLen + 1].fn = "try_glab_token"
    /\ last.client.kind = "Ok"
    /\ token # last.entry_token

\* C6 as stated: whenever the scope check finds the scope missing, cached
\* token or probed one, the call returns MissingScope('api') and makes no
\* further call.
C6_Original ==
    IsAuth =>
      \A i \in DOMAIN Log :
         (Log[i].fn = "verify_token_scopes" /\ Log[i].res = "MissingScope") =>
            /\ last.client = MissingScope(RequiredScope)
            /\ i = Len(Log)

\* C6 amended: when a freshly probed credential lacks the scope, the call
\* returns MissingScope naming 'api' and makes no further call; when the
\* credential held at the call lacks it, that credential is discarded and the
\* probe chain runs.
C6_MissingScopeNotRetried ==
    IsAuth =>
      \A i \in DOMAIN Log :
         (Log[i].fn = "verify_token_scopes" /\ Log[i].res = "MissingScope") =>
            IF i > CachedLen
            THEN /\ last.client = MissingScope(RequiredScope)
                 /\ last.client.required = "api"
                 /\ "api" \in Range(last.res.text)
                 /\ i = Len(Log)
            ELSE /\ i = 1
                 /\ Len(Log) > 1
                 /\ Log[2].fn = "try_glab_token"

C6_Witness ==
    /\ IsAuth
    /\ last.entry_token # None
    /\ Log[1].res = "MissingScope"
    /\ Len(Log) > 2
    /\ Log[Len(Log)].res = "MissingScope"
    /\ last.client.kind = "MissingScope"

\* C7: each source of the chain is asked at most once per authenticate();
\* when the held token is rejected with AuthenticationFailed it is dropped
\* and the chain runs, and when the probed token fails verification too the
\* call ends there with that error.
C7_SingleReprobe ==
    IsAuth =>
      /\ Count("try_glab_token") <= 1
      /\ Count("try_cli_auth") <= 1
      /\ Count("prompt_for_token") <= 1
      /\ Cardinality({i \in DOMAIN Log : Log[i].fn = "git credential fill"
                                          /\ Log[i].res # Child("second", "output read")})
            <= 1
      /\ (last.entry_token # None /\ Log[CachedLen].res = "AuthenticationFailed") =>
            /\ Count("try_glab_token") = 1
            /\ Log[CachedLen + 1].fn = "try_glab_token"
            /\ token = ProbedToken
            /\ \A i \in DOMAIN Log :
                  (i > CachedLen /\ Log[i].fn \in VerifyFns /\ Log[i].res # "Ok") =>
                     /\ i = Len(Log)
                     /\ last.client.kind = Log[i].res

C7_Witness ==
    /\ IsAuth
    /\ last.entry_token # None
    /\ Log[CachedLen].res = "AuthenticationFailed"
    /\ Len(Log) > CachedLen + 1
    /\ Log[Len(Log)].fn \in VerifyFns
    /\ last.client.kind = "AuthenticationFailed"

\* C8: with no token held and no source yielding one, the client returns
\* NoTokenAvailable without calling a verification endpoint, the provider
\* returns ProviderAuthRequired naming the token-creation URL, and the
\* authenticated flag is not set.
C8_NoTokenAvailable ==
    (IsAuth /\ last.entry_token = None /\ ProbedToken = None) =>
      /\ last.client = GErr("NoTokenAvailable")
      /\ \A i \in DOMAIN Log : Log[i].fn \notin VerifyFns
      /\ last.res.kind = "ProviderAuthRequired"
      /\ PatUrl \in Range(last.res.text)
      /\ authenticated = last.entry_auth
      /\ token = None

C8_Witness ==
    /\ IsAuth
    /\ last.entry_token = None
    /\ last.client.kind = "NoTokenAvailable"
    /\ \A fn \in SourceFns : Count(fn) > 0
    /\ ~authenticated

\* C9: authenticate() succeeds only if its last two calls are the scope
\* check and then the identity check, both passed, on the token it holds at
\* return; the identity endpoint is only ever called right after a passed
\* scope check of the same token.
C9_ScopeThenIdentity ==
    IsAuth =>
      /\ last.client.kind = "Ok" =>
            /\ Len(Log) >= 2
            /\ token # None
            /\ Log[Len(Log) - 1] = Ev("verify_token_scopes", token, "Ok")
            /\ Log[Len(Log)] = Ev("verify_auth", token, "Ok")
      /\ \A i \in DOMAIN Log :
            Log[i].fn = "verify_auth" =>
               /\ i > 1
               /\ Log[i - 1] = Ev("verify_token_scopes", Log[i].tok, "Ok")

C9_Witness ==
    /\ IsAuth
    /\ last.client.kind = "Ok"
    /\ authenticated
    /\ Log[Len(Log)].fn = "verify_auth"

\* C10: get_merge_request returns MergeRequestNotFound(n) when the endpoint
\* answers 404 for iid n, and ApiError with the status and the body for every
\* other non-2xx answer; the two are different kinds.
C10_NotFoundVsApiError ==
    (last.op = "get_review" /\ last.request.method = "GET" /\ last.response.status # 0) =>
      /\ last.response.status = 404 =>
            /\ last.client.kind = "MergeRequestNotFound"
            /\ last.client.iid = last.request.iid
      /\ (last.response.status # 404 /\ ~IsSuccess(last.response.status)) =>
            /\ last.client.kind = "ApiError"
            /\ last.client.status = last.response.status
            /\ last.client.message = last.response.body

C10_Witness ==
    /\ last.op = "get_review"
    /\ last.response.status = 404
    /\ last.client = MergeRequestNotFound(42)

----------------------------------------------------------------------------
(* Review ids and errors at the Provider interface of GitLabProvider *)

IsIdCall == last.op \in {"get_review", "update_review"}

AllDigits(s) == s # <<>> /\ \A i \in 1..Len(s) : s[i] \in Digit

\* a bare number, as mr_to_review writes it
IsBare(s) == AllDigits(s)

\* a bang-prefixed number, as the in-memory provider writes it for GitLab
IsBang(s) == s # <<>> /\ s[1] = "!" /\ AllDigits(Tail(s))

\* a string that denotes no number at all, whatever its prefix
NonNumeric(s) ==
    ~AllDigits(s) /\ ~(s # <<>> /\ s[1] \in {"!", "+"} /\ AllDigits(Tail(s)))

\* C11: a caller of get_review can tell a 404 ("review not found") from a
\* generic API failure (a 500) by the kind of the returned error: the kind
\* returned for a 404 is not the kind returned for any 500.
C11_NotFoundDistinctByKind ==
    (last.op = "get_review" /\ last.response.status = 404) =>
        \A tok \in Tokens : \A c \in get_merge_request(tok, last.request.iid) :
            c.response.status = 500 =>
                ReviewResult(c, "Failed to get merge request: ").kind # last.res.kind

\* the fields of UpdateReviewParams that are present
PresentFields(params) ==
    JsonBody({<<"title", params.title>>, <<"description", params.description>>,
              <<"target_branch", params.target_branch>>, <<"draft", params.draft>>})

\* C12: the PUT body of update_review holds exactly the fields of title,
\* description, target_branch and draft that are present in the
\* UpdateReviewParams: no present field is dropped, no absent field is sent.
C12_BodyIsPresentFields ==
    (last.op = "update_review" /\ last.request.method = "PUT") =>
        last.request.body = PresentFields(last.params)

NoHttp == last.request = NoRequest /\ last.response = NoResponse

InvalidMrId(id) == provider_op(<<"Invalid MR ID: ">> \o id)

\* C13 as stated: get_review and update_review given a non-numeric id fail
\* with 'Invalid MR ID' naming the string, and make no HTTP request.
C13_Original ==
    (IsIdCall /\ NonNumeric(last.params.review_id)) =>
        /\ last.res = InvalidMrId(last.params.review_id)
        /\ NoHttp

\* C13 (amended): on a provider whose project path is set, get_review and
\* update_review given a non-numeric id fail with 'Invalid MR ID' naming the
\* string and make no HTTP request; with no project path set they fail with
\* 'Project path not set' before the id is looked at, and again make no HTTP
\* request. No id is ever substituted.
C13_InvalidIdRejected ==
    (IsIdCall /\ NonNumeric(last.params.review_id)) =>
        /\ NoHttp
        /\ last.res.kind = "ProviderOperationFailed"
        /\ project_path # None => last.res = InvalidMrId(last.params.review_id)
        /\ project_path = None => last.res = provider_op(<<"Project path not set">>)

C13_Witness ==
    /\ last.op = "get_review"
    /\ project_path # None
    /\ last.params.review_id = <<"x">>
    /\ last.res = provider_op(<<"Invalid MR ID: ", "x">>)
    /\ NoHttp

\* C14: a bare ('42') or bang-prefixed ('!42') numeric id is parsed by
\* get_review and update_review back to the iid it names: on a provider with a
\* project path the id is not rejected as invalid, a request that goes out is
\* for that iid, and a review that comes back carries an id naming the same iid.
C14_NumericIdRoundTrip ==
    LET id == last.params.review_id
        n  == IF IsBang(id) THEN DigitsValue(Tail(id)) ELSE DigitsValue(id)
    IN  (IsIdCall /\ project_path # None /\ (IsBare(id) \/ IsBang(id))) =>
            /\ last.res # InvalidMrId(id)
            /\ last.request # NoRequest => last.request.iid = n
            /\ last.res.kind = "Ok" => ParseU64(last.res.review.id).value = n

----------------------------------------------------------------------------
(* The stubbed GitHub provider *)

ReviewOps == {"create_review", "update_review", "get_review", "find_review_for_branch"}

\* C15: every review operation of the GitHub provider returns a
\* ProviderOperationFailed error that says 'not yet implemented', whatever
\* the gh CLI does and whatever the arguments; none returns a review.
C15_StubNotImplemented ==
    gh_last.op \in ReviewOps =>
        /\ gh_last.res.kind = "ProviderOperationFailed"
        /\ Len(gh_last.res.text) = 2
        /\ gh_last.res.text[2] = "not yet implemented"
        /\ gh_last.res.review = NoReview

C15_Witness ==
    /\ gh_last.op = "get_review"
    /\ gh_last.args.review_id = <<"1">>
    /\ gh.installed /\ gh.auth_exit = 0 /\ Contains(gh.auth_stdout, "Logged in")
    /\ gh_last.res = provider_op(<<"GitHub PR retrieval", "not yet implemented">>)

----------------------------------------------------------------------------
(* The in-memory provider *)

\* the decimal numeral of a small number, digit by digit
Numeral(n) == <<<<"1">>, <<"2">>, <<"3">>, <<"4">>, <<"5">>, <<"6">>, <<"7">>, <<"8">>, <<"9">>>>[n]

\* the number a native id names
IdNumber(id) == DigitsValue(IF id # <<>> /\ id[1] = "!" THEN Tail(id) ELSE id)

\* C16: the reviews returned by successive successful create_review calls
\* since construction or the last clear_reviews carry the ids 1, 2, 3, ... in
\* that order (so pairwise distinct and strictly increasing), written '!n'
\* by a GitLab provider and 'n' by a GitHub provider.
C16_SequentialIds ==
    /\ \A i \in 1..Len(created) :
          /\ created[i].id = IF provider_type = "GitLab" THEN <<"!">> \o Numeral(i)
                              ELSE Numeral(i)
          /\ \A j \in 1..Len(created) :
                i < j => IdNumber(created[i].id) < IdNumber(created[j].id)
    /\ (mock_last.op = "create_review" /\ mock_last.res.kind = "Ok") =>
          /\ created # <<>>
          /\ mock_last.res.review = created[Len(created)]

C16_Witness ==
    /\ provider_type = "GitLab"
    /\ mock_last.op = "create_review"
    /\ Len(created) = 2
    /\ created[1].id = <<"!", "1">>
    /\ mock_last.res.review.id = <<"!", "2">>

SimulatedFailure(op) ==
    provider_op(<<CASE op = "create_review" -> "Simulated create failure"
                    [] op = "update_review" -> "Simulated update failure"
                    [] op = "get_review" -> "Simulated get failure">>)

ShouldFail(st, op) ==
    CASE op = "create_review" -> st.should_fail_create
      [] op = "update_review" -> st.should_fail_update
      [] op = "get_review" -> st.should_fail_get

\* C17: failure injection fires exactly once.  For each of create_review,
\* update_review and get_review: fail_next_<op> arms the injection; a call of
\* the operation made while it is armed fails with the simulated error and
\* disarms it, so that the call after it behaves normally; a call made while
\* it is not armed never fails with the simulated error.
C17_InjectionFiresOnce ==
    [][\A op \in {"create_review", "update_review", "get_review"} :
          mock_last'.op = op =>
              IF ShouldFail(mock_state, op)
              THEN /\ mock_last'.res = SimulatedFailure(op)
                   /\ ~ShouldFail(mock_state', op)
              ELSE /\ mock_last'.res # SimulatedFailure(op)
                   /\ ~ShouldFail(mock_state', op)]_vars

\* C18: get_review with an id that create_review returned, when that review
\* has not been updated since and no get failure is injected, returns a
\* Review equal in every field to the one create_review returned, in state
\* Open.
C18_GetReturnsCreated ==
    (mock_last.op = "get_review" /\ ~mock_state.should_fail_get) =>
        \A i \in 1..Len(created) :
            (created[i].id = mock_last.args.review_id /\ created[i].id \notin updated) =>
                /\ mock_last.res.kind = "Ok"
                /\ mock_last.res.review = created[i]
                /\ mock_last.res.review.state = "Open"

C18_Witness ==
    /\ mock_last.op = "get_review"
    /\ Len(created) = 2
    /\ mock_last.args.review_id = created[1].id
    /\ created[1].id \notin updated
    /\ mock_last.res = PRes("Ok", <<>>, created[1])

CreatedFor(branch) == {i \in 1..Len(created) : created[i].source_branch = branch}

Latest(S) == CHOOSE i \in S : \A j \in S : j <= i

\* C20: find_review_for_branch(b) returns the most recently created review
\* whose source branch is b, as it is stored now, and None when no review has
\* been created for b.
C20_FindMostRecent ==
    mock_last.op = "find_review_for_branch" =>
        LET S == CreatedFor(mock_last.args.branch)
        IN  IF S = {}
            THEN mock_last.res = POk /\ ~mock_last.some
            ELSE /\ mock_last.some
                 /\ mock_last.res =
                      PRes("Ok", <<>>, mock_state.reviews[created[Latest(S)].id])

C20_Witness ==
    /\ mock_last.op = "find_review_for_branch"
    /\ Len(created) = 2
    /\ created[1].source_branch = created[2].source_branch
    /\ mock_last.args.branch = created[2].source_branch
    /\ mock_last.some
    /\ mock_last.res.review.id = created[2].id

----------------------------------------------------------------------------
(* C21 *)

\* no thread is inside create_review
Quiescent == \A t \in Threads : pc[t] \in {"idle", "done"}

\* C21: under every interleaving of concurrent create_review calls on one
\* shared in-memory provider, the ids the calls returned are pairwise
\* distinct, and once no call is in progress the number of stored reviews
\* equals the number of creates that succeeded.
C21_ConcurrentCreates ==
    /\ \A i, j \in 1..Len(created) : i # j => created[i].id # created[j].id
    /\ Quiescent => Cardinality(DOMAIN mock_state.reviews) = Len(created)

\* both threads have come back from a create_review that succeeded
C21_Witness ==
    /\ \A t \in Threads : pc[t] = "done" /\ local[t].res.kind = "Ok"
    /\ Len(created) = Cardinality(Threads)

----------------------------------------------------------------------------
(* C22 *)

\* C22: ProviderType::from_str returns GitLab for every casing of 'gitlab',
\* GitHub for every casing of 'github', and for every other string fails
\* with UnknownProvider carrying exactly the string it was given.
C22_FromStrTotal ==
    remote_last.op = "from_str" =>
        /\ subject \in Casings(s_gitlab) => remote_last.res = RRes("Ok", <<"GitLab">>)
        /\ subject \in Casings(s_github) => remote_last.res = RRes("Ok", <<"GitHub">>)
        /\ subject \notin Casings(s_gitlab) \cup Casings(s_github) =>
               remote_last.res = UnknownProvider(subject)

\* from_str has answered a mixed-case spelling of a provider name
C22_Witness ==
    /\ remote_last.op = "from_str"
    /\ subject = <<"G", "i", "t", "H", "u", "b">>
    /\ remote_last.res.kind = "Ok"

----------------------------------------------------------------------------
(* C23 *)

\* C23: from_remote_url, given a remote whose host contains neither 'gitlab'
\* nor 'github.com', fails with ProviderDetectionFailed carrying the remote
\* verbatim, whatever the user and path components contain.
C23_DetectionByHost ==
    remote_last.op = "from_remote_url" =>
        \A p \in RemoteParts :
            /\ subject = Build(p)
            /\ ~contains(p.host, s_gitlab)
            /\ ~contains(p.host, s_github_com)
            => remote_last.res = ProviderDetectionFailed(subject)

----------------------------------------------------------------------------
(* C24 *)

\* the base URL of a remote with these parts
BaseOf(p) ==
    IF p.prefix \in SshPrefixes THEN s_https \o p.host ELSE p.prefix \o p.host

\* C24: for SSH-style (user@host:path) and HTTPS-style remotes,
\* extract_base_url gives the host's base URL and extract_project_path the
\* path with its internal slashes, whether the remote ends in nothing,
\* '.git', a slash, or '.git' followed by a slash.
C24_SuffixesStripped ==
    \A p \in RemoteParts :
        subject = Build(p) /\ p.prefix \in SshPrefixes \cup HttpPrefixes =>
            /\ remote_last.op = "extract_base_url" =>
                   remote_last.res = RRes("Ok", BaseOf(p))
            /\ remote_last.op = "extract_project_path" =>
                   remote_last.res = RRes("Ok", p.path)

----------------------------------------------------------------------------
(* C25 *)

\* C25: when extract_base_url and extract_project_path both succeed on a
\* remote, with base b and path p, extracting again from b + '/' + p gives
\* b and p back.
C25_InverseStable ==
    remote_last.op \in {"extract_base_url", "extract_project_path"} =>
        LET b == extract_base_url(subject)
            p == extract_project_path(subject)
            canonical == b.value \o <<"/">> \o p.value
        IN  b.kind = "Ok" /\ p.kind = "Ok" =>
                /\ extract_base_url(canonical) = RRes("Ok", b.value)
                /\ extract_project_path(canonical) = RRes("Ok", p.value)

----------------------------------------------------------------------------
(* C26 *)

\* remotes of neither shape: a host with no path part, and a remote with
\* neither a user@ nor a scheme in front
Shapeless == HostOnly \cup {Build(p) : p \in {q \in RemoteParts : q.prefix = <<>>}}

\* C26: on a remote that is neither SSH-style nor HTTPS-style,
\* extract_base_url and extract_project_path both fail with an error that
\* names the remote; neither returns a value.
C26_ShapelessRejected ==
    subject \in Shapeless =>
        /\ remote_last.op = "extract_base_url" =>
               remote_last.res =
                   config(<<"Unable to extract base URL from remote: ">> \o subject)
        /\ remote_last.op = "extract_project_path" =>
               remote_last.res =
                   config(<<"Unable to extract project path from remote: ">> \o subject)

----------------------------------------------------------------------------
(* C27 *)

\* C27: run_init in a repository that is already initialized fails with
\* AlreadyInitialized and leaves the metadata file as it was; of two
\* successive run_init calls the second fails that way whenever the first
\* succeeded.
C27_SecondInitFails ==
    /\ init_last.op = "run_init" /\ init_last.entry.metadata.exists =>
           /\ init_last.res = AlreadyInitialized
           /\ repo.metadata = init_last.entry.metadata
    /\ \A i \in 1..(Len(init_log) - 1) :
           /\ init_log[i].op = "run_init"
           /\ init_log[i].res.kind = "Ok"
           /\ init_log[i + 1].op = "run_init"
           => init_log[i + 1].res = AlreadyInitialized

\* an init that succeeded, followed by one that was refused
C27_Witness ==
    /\ Len(init_log) = 2
    /\ init_log[1] = LogEntry("run_init", RRes("Ok", <<>>))
    /\ init_log[2] = LogEntry("run_init", AlreadyInitialized)
    /\ repo.metadata = init_last.entry.metadata

----------------------------------------------------------------------------
(* C28 *)

\* the remote run_init looks at is on github.com
OriginOnGitHub(r) ==
    /\ \E i \in 1..Len(r.remotes) : r.remotes[i].name = "origin"
    /\ get_remote_url(r.remotes, "origin") \in
           {s_https \o s_github_com \o <<"/">> \o s_user_repo \o s_dot_git,
            s_git_at \o s_github_com \o <<":">> \o s_user_repo \o s_dot_git}

\* C28: run_init without a provider override, in a repository that is not
\* yet initialized and whose origin remote is a github.com URL, succeeds and
\* saves metadata that records the provider github.
C28_GitHubDetected ==
    /\ init_last.op = "run_init"
    /\ ~init_last.args.provider_override.some
    /\ init_last.entry.in_git
    /\ ~init_last.entry.metadata.exists
    /\ OriginOnGitHub(init_last.entry)
    => /\ init_last.res.kind = "Ok"
       /\ repo.metadata.exists
       /\ repo.metadata.provider = "github"

----------------------------------------------------------------------------
(* C29 *)

\* the provider a valid override names
Overriding(provider_override) ==
    IF to_lowercase(provider_override.value) = s_gitlab THEN "gitlab" ELSE "github"

ValidOverride(provider_override) ==
    /\ provider_override.some
    /\ to_lowercase(provider_override.value) \in {s_gitlab, s_github}

\* C29: with a provider override, a run_init that succeeds records the
\* overriding provider, also when the origin remote belongs to the other
\* service; and run_init with a valid override succeeds in a repository
\* that has no remotes and is not yet initialized.
C29_OverrideWins ==
    init_last.op = "run_init" /\ init_last.args.provider_override.some =>
        /\ init_last.res.kind = "Ok" =>
               /\ repo.metadata.exists
               /\ repo.metadata.provider = Overriding(init_last.args.provider_override)
        /\ /\ ValidOverride(init_last.args.provider_override)
           /\ init_last.entry.in_git
           /\ ~init_last.entry.metadata.exists
           /\ init_last.entry.remotes = <<>>
           => init_last.res.kind = "Ok"

\* an init with --provider gitlab has succeeded in a repository whose origin
\* is on github.com
C29_Witness ==
    /\ init_last.op = "run_init"
    /\ init_last.args.provider_override = Some(s_gitlab)
    /\ OriginOnGitHub(init_last.entry)
    /\ init_last.res.kind = "Ok"
    /\ repo.metadata.provider = "gitlab"

----------------------------------------------------------------------------
(* C30 *)

----------------------------------------------------------------------------
(* C31 *)

\* C31: in verify_auth, a response with status 401 yields
\* AuthenticationFailed, and every other response whose status is not 2xx
\* yields ApiError carrying the status and the body of the response.
C31_IdentityErrors ==
    /\ verify_last.op = "verify_auth"
    /\ candidate # None
    /\ reply.status # 0
    => /\ reply.status = 401 => verify_last.res = GErr("AuthenticationFailed")
       /\ reply.status # 401 /\ ~IsSuccess(reply.status) =>
              verify_last.res = ApiError(reply.status, reply.body)

----------------------------------------------------------------------------
(* C32 *)

\* C32 as stated: for every token whose introspection reports active =
\* false, verify_token_scopes fails with AuthenticationFailed.
C32_Original ==
    /\ verify_last.op = "verify_token_scopes"
    /\ candidate # None
    /\ IsSuccess(reply.status)
    /\ ~reply.active
    => verify_last.res = GErr("AuthenticationFailed")

\* C32: a token whose introspection reports active = false never passes
\* verify_token_scopes.  The failure is AuthenticationFailed when the token
\* has the 'api' scope; when it lacks the scope the failure is MissingScope,
\* because the scope list is examined before the active flag.
C32_InactiveRejected ==
    /\ verify_last.op = "verify_token_scopes"
    /\ candidate # None
    /\ IsSuccess(reply.status)
    /\ ~reply.active
    => /\ verify_last.res.kind # "Ok"
       /\ RequiredScope \in reply.scopes =>
              verify_last.res = GErr("AuthenticationFailed")
       /\ RequiredScope \notin reply.scopes =>
              verify_last.res = MissingScope(RequiredScope)

\* the scope check has refused an inactive token that has the scope
C32_Witness ==
    /\ verify_last.op = "verify_token_scopes"
    /\ candidate # None
    /\ reply.status = 200
    /\ ~reply.active
    /\ RequiredScope \in reply.scopes
    /\ verify_last.res = GErr("AuthenticationFailed")

----------------------------------------------------------------------------
(* C33 *)

\* the checks of this authenticate() ended on a failure of a candidate
VerificationFailed ==
    /\ IsAuth
    /\ Len(Log) > 0
    /\ Log[Len(Log)].fn \in VerifyFns
    /\ Log[Len(Log)].res # "Ok"

\* C33: when authenticate() ends because the verification of a candidate
\* failed (401, missing scope, inactive token or another error), the client
\* holds no token afterwards: get_auth_token() returns None.
C33_FailedCandidateCleared ==
    VerificationFailed => token = None

----------------------------------------------------------------------------
(* C35 *)

\* authenticate() was called on an authenticated client, and the token held
\* passed the scope check and the identity check in that call
HeldTokenPassedAgain ==
    /\ IsAuth
    /\ last.entry_auth
    /\ last.entry_token # None
    /\ Len(Log) >= 2
    /\ Log[1] = Ev("verify_token_scopes", last.entry_token, "Ok")
    /\ Log[2] = Ev("verify_auth", last.entry_token, "Ok")

\* C35: authenticate() on a client whose held token passes both checks
\* again succeeds, consults no source of the probe chain, and leaves the
\* token and the authenticated flag as they were; the two verification calls
\* are all it does.
C35_VerificationIdempotent ==
    HeldTokenPassedAgain =>
      /\ last.client = GOk
      /\ last.res = POk
      /\ Log = <<Ev("verify_token_scopes", last.entry_token, "Ok"),
                 Ev("verify_auth", last.entry_token, "Ok")>>
      /\ token = last.entry_token
      /\ authenticated = last.entry_auth
      /\ token \in verified

C35_Witness ==
    /\ HeldTokenPassedAgain
    /\ last.client = GOk
    /\ token = last.entry_token
    /\ authenticated

----------------------------------------------------------------------------
(* C38 *)

\* the calls of prompt_for_token, from the chain or from the CLI-auth choice
ManualPrompts ==
    {i \in DOMAIN Log : Log[i].fn \in {"prompt_for_token", InCli \o "prompt_for_token"}}

\* C38: within one authenticate() the user is asked to enter a Personal
\* Access Token by hand at most once, whether or not glab is available and
\* whatever is chosen or typed.
C38_PromptedOnce ==
    IsAuth => Cardinality(ManualPrompts) <= 1

----------------------------------------------------------------------------
(* C34 *)

\* C34: the credential-helper step takes the token from the response of
\* the helper invocation that was sent the request 'protocol=https,
\* host=<host>': a response is never read from an invocation that did not
\* receive the request.
C34_ResponseOfSameInvocation ==
    IsAuth =>
      \A i \in DOMAIN Log : \A c \in Children :
         (Log[i].fn = "git credential fill" /\ Log[i].res = Child(c, "output read")) =>
            \E j \in 1..(i - 1) :
               /\ Log[j].fn = "git credential fill"
               /\ Log[j].res = Child(c, "request written")

----------------------------------------------------------------------------
(* C36 *)

\* the authentication, CLI-availability and failure-injection flags
Switches(st) ==
    <<st.cli_available, st.authenticated, st.should_fail_create,
      st.should_fail_update, st.should_fail_get>>

----------------------------------------------------------------------------
(* C39 *)

\* the numbers of the ids given out so far
Assigned(st) == {FormatId(provider_type, n) : n \in 1..(st.next_id - 1)}

\* C39: in every reachable state of the mock, every review id in the branch
\* index is a key of the review table and the review it names has that
\* index key as its source branch, every stored review is stored under its
\* own id, and the number of every id in use is below next_id.
C39_IndexAndTableAgree ==
    LET st == mock_state
    IN  /\ \A branch \in DOMAIN st.branch_to_review :
              /\ st.branch_to_review[branch] \in DOMAIN st.reviews
              /\ st.reviews[st.branch_to_review[branch]].source_branch = branch
        /\ \A id \in DOMAIN st.reviews : st.reviews[id].id = id
        /\ DOMAIN st.reviews \subseteq Assigned(st)
        /\ st.next_id >= 1

\* two reviews are stored and each branch is indexed to one of them
C39_Witness ==
    /\ mock_last.op = "create_review"
    /\ mock_last.res.kind = "Ok"
    /\ DOMAIN mock_state.branch_to_review = Branches
    /\ review_count(mock_state) = 2
    /\ mock_state.next_id = 3

----------------------------------------------------------------------------
(* C40 *)

\* the review table, the branch index and the id counter
Stored(st) == <<st.reviews, st.branch_to_review, st.next_id>>

\* C40: every mock operation that returns an error (an injected create,
\* update or get failure, update or get of an unknown id) leaves the review
\* table, the branch index and the id counter as they were; a failed create
\* uses up no id.
C40_ErrorsLeaveReviews ==
    [][ ( /\ \/ \E params \in MockCreateParams : Mock_create_review(params)
             \/ \E params \in MockUpdateParams : Mock_update_review(params)
             \/ \E id \in MockIds : Mock_get_review(id)
          /\ mock_last'.res.kind # "Ok" )
        => Stored(mock_state') = Stored(mock_state) ]_vars

\* a create failed by injection after a review had been created
C40_Witness ==
    /\ mock_last.op = "create_review"
    /\ mock_last.res.kind = "ProviderOperationFailed"
    /\ review_count(mock_state) = 1
    /\ mock_state.next_id = 2
    /\ ~mock_state.should_fail_create

----------------------------------------------------------------------------
(* C37 *)

\* the last command was a run_init that returned an error
InitFailed == init_last.op = "run_init" /\ init_last.res.kind # "Ok"

\* C37: when run_init returns an error (not a git repository, invalid
\* provider, detection failure, authentication failure), that call has
\* written no metadata file: is_initialized() is what it was before the
\* call, and a run_init after it is rejected as AlreadyInitialized only if
\* the repository was initialized before the failed attempt.
C37_FailedInitWritesNothing ==
    InitFailed =>
      /\ repo.metadata = init_last.entry.metadata
      /\ is_initialized(repo) = is_initialized(init_last.entry)
      /\ \A provider_override \in ProviderOverrides :
         \A base_branch_override \in BaseBranchOverrides :
         \A skip_auth \in BOOLEAN : \A auth \in AuthOutcomes :
            LET args == InitArgs(provider_override, base_branch_override, skip_auth)
            IN  run_init_outcome(repo, args, auth).res = AlreadyInitialized
                => is_initialized(init_last.entry)

\* authentication failed after the metadata directory had been created
C37_Witness ==
    /\ InitFailed
    /\ init_last.res.kind = "ProviderAuthRequired"
    /\ ~init_last.entry.basalt_dir
    /\ repo.basalt_dir
    /\ ~is_initialized(repo)

====
